---- MODULE Spec2Model ----
(***************************************************************************)
(* The template engine of build.js (resolve, isTruthy, findClosingTag,     *)
(* findIfBlock, render) and the markdown converter it is documented to     *)
(* call, as a state machine: a call is prepared (Init), then made; and the  *)
(* build script around it, a step per page; and the validate script, a     *)
(* step per language.                                                      *)
(*                                                                         *)
(* Strings are TLA+ strings; positions are 0-based as in the JavaScript.   *)
(* A JavaScript value is a record [t, v]: t is its type tag, v its payload *)
(* (an object's payload is its entries in insertion order).  Objects hold  *)
(* their own keys only: members inherited from Object.prototype are not    *)
(* modelled.                                                               *)
(***************************************************************************)
EXTENDS Integers, Sequences, FiniteSets, TLC

VARIABLES
    op,         \* which function is called: "render", "renderBlock", "renderInline"
    shape,      \* how the input was put together (the family and its parts)
    template,   \* render's template argument
    mdText,     \* the markdown converter's argument
    data,       \* render's data argument (the context)
    partials,   \* render's partials argument (the registry)
    pc,         \* "ready" before the call, "done" after it
    result,     \* what the call returned or threw, and what it logged
    templates,  \* build: the templates loaded, by name
    locals,     \* the local variables of the running script
    console,    \* the lines the script reported, in order
    files,      \* build: the output files written, by path
    dataDir,    \* validate: the language directories of data/, each with the
                \* pages of its pages.json or undefined when it has no such file
    exitCode    \* the script's exit code, -1 while it runs

vars == <<op, shape, template, mdText, data, partials, pc, result,
          templates, locals, console, files, dataDir, exitCode>>

-----------------------------------------------------------------------------
(* String primitives of JavaScript used by the engine.                     *)

\* String.prototype.slice(a, b) for 0 <= a, b
Slice(s, a, b) == SubSeq(s, a + 1, b)

\* String.prototype.startsWith at position pos
MatchAt(s, pat, pos) ==
    /\ pos + Len(pat) <= Len(s)
    /\ SubSeq(s, pos + 1, pos + Len(pat)) = pat

\* String.prototype.indexOf(pat, pos) for a non-empty pat: the first position
\* from pos on where pat stands, -1 when there is none
IndexOf(s, pat, pos) ==
    LET found == {p \in pos..(Len(s) - Len(pat)) : MatchAt(s, pat, p)}
    IN IF found = {} THEN -1 ELSE CHOOSE p \in found : \A q \in found : p <= q

StartsWith(s, pat) == MatchAt(s, pat, 0)

IsSpace(c) == c \in {" ", "\t", "\n", "\r"}

RECURSIVE TrimStart(_)
TrimStart(s) ==
    IF Len(s) > 0 /\ IsSpace(SubSeq(s, 1, 1)) THEN TrimStart(SubSeq(s, 2, Len(s)))
    ELSE s

RECURSIVE TrimEnd(_)
TrimEnd(s) ==
    IF Len(s) > 0 /\ IsSpace(SubSeq(s, Len(s), Len(s))) THEN TrimEnd(SubSeq(s, 1, Len(s) - 1))
    ELSE s

\* String.prototype.trim
Trim(s) == TrimEnd(TrimStart(s))

RECURSIVE SplitDots(_)
\* String.prototype.split('.'): the segments, empty ones included
SplitDots(s) ==
    LET d == IndexOf(s, ".", 0) IN
    IF d = -1 THEN <<s>>
    ELSE <<Slice(s, 0, d)>> \o SplitDots(Slice(s, d + 1, Len(s)))

-----------------------------------------------------------------------------
(* JavaScript values.                                                      *)

Undefined == [t |-> "undefined", v |-> ""]
Null      == [t |-> "null", v |-> ""]
Bool(b)   == [t |-> "boolean", v |-> b]
Num(n)    == [t |-> "number", v |-> n]
Str(s)    == [t |-> "string", v |-> s]
Arr(q)    == [t |-> "array", v |-> q]
\* an object: its own entries [k, v] in insertion order, keys distinct
Obj(es)   == [t |-> "object", v |-> es]
Entry(k, x) == [k |-> k, v |-> x]

\* value == null (null or undefined)
IsNullish(x) == x.t \in {"undefined", "null"}

Digit(d) == SubSeq("0123456789", d + 1, d + 1)

RECURSIVE NumToString(_)
\* String(n) for an integer n
NumToString(n) ==
    IF n < 0 THEN "-" \o NumToString(0 - n)
    ELSE IF n < 10 THEN Digit(n)
    ELSE NumToString(n \div 10) \o Digit(n % 10)

RECURSIVE ToStr(_)
RECURSIVE JoinComma(_, _)
\* Array.prototype.join(','): null and undefined elements give ''
JoinComma(q, i) ==
    IF i > Len(q) THEN ""
    ELSE (IF i > 1 THEN "," ELSE "")
         \o (IF IsNullish(q[i]) THEN "" ELSE ToStr(q[i]))
         \o JoinComma(q, i + 1)

\* String(value)
ToStr(x) ==
    CASE x.t = "string"    -> x.v
      [] x.t = "number"    -> NumToString(x.v)
      [] x.t = "boolean"   -> (IF x.v THEN "true" ELSE "false")
      [] x.t = "array"     -> JoinComma(x.v, 1)
      [] x.t = "object"    -> "[object Object]"
      [] x.t = "null"      -> "null"
      [] x.t = "undefined" -> "undefined"

\* the entries of an object that hold key k (none or one)
EntriesAt(es, k) == {i \in 1..Len(es) : es[i].k = k}

\* the indices i of a sequence or string of length n whose property name is k
IndexNamed(n, k) == {i \in 0..(n - 1) : NumToString(i) = k}

\* o[k] for a value o that is neither null nor undefined
GetProp(o, k) ==
    CASE o.t = "object" ->
            (IF EntriesAt(o.v, k) = {} THEN Undefined
             ELSE o.v[CHOOSE i \in EntriesAt(o.v, k) : TRUE].v)
      [] o.t = "array" ->
            (IF k = "length" THEN Num(Len(o.v))
             ELSE IF IndexNamed(Len(o.v), k) = {} THEN Undefined
             ELSE o.v[(CHOOSE i \in IndexNamed(Len(o.v), k) : TRUE) + 1])
      [] o.t = "string" ->
            (IF k = "length" THEN Num(Len(o.v))
             ELSE IF IndexNamed(Len(o.v), k) = {} THEN Undefined
             ELSE LET i == CHOOSE j \in IndexNamed(Len(o.v), k) : TRUE
                  IN Str(SubSeq(o.v, i + 1, i + 1)))
      [] OTHER -> Undefined

RECURSIVE ReducePath(_, _, _)
\* keys.reduce((o, k) => (o != null) ? o[k] : undefined, obj)
ReducePath(o, keys, i) ==
    IF i > Len(keys) THEN o
    ELSE ReducePath(IF IsNullish(o) THEN Undefined ELSE GetProp(o, keys[i]), keys, i + 1)

resolve(obj, keyPath) ==
    IF keyPath = "" \/ IsNullish(obj) THEN Undefined
    ELSE ReducePath(obj, SplitDots(keyPath), 1)

\* variant: !!value alone, so that an empty array is truthy
isTruthyNoArrayCase(value) ==
    CASE value.t = "boolean" -> value.v
      [] value.t = "number"  -> value.v # 0
      [] value.t = "string"  -> value.v # ""
      [] value.t \in {"object", "array"} -> TRUE
      [] OTHER               -> FALSE

isTruthy(value) ==
    CASE value.t = "array"   -> Len(value.v) > 0
      [] value.t = "boolean" -> value.v
      [] value.t = "number"  -> value.v # 0
      [] value.t = "string"  -> value.v # ""
      [] value.t = "object"  -> TRUE
      [] OTHER               -> FALSE

\* { ...es, [k]: x }: an own key keeps its place, a new one is appended
Assign(es, k, x) ==
    IF EntriesAt(es, k) = {} THEN Append(es, Entry(k, x))
    ELSE [i \in 1..Len(es) |-> IF es[i].k = k THEN Entry(k, x) ELSE es[i]]

\* the own enumerable properties a spread (...x) copies
OwnEntries(x) ==
    CASE x.t = "object" -> x.v
      [] x.t = "array"  -> [i \in 1..Len(x.v) |-> Entry(NumToString(i - 1), x.v[i])]
      [] x.t = "string" -> [i \in 1..Len(x.v) |-> Entry(NumToString(i - 1), Str(SubSeq(x.v, i, i)))]
      [] OTHER          -> <<>>

RECURSIVE AssignAll(_, _, _)
\* { ...es, ...src }
AssignAll(es, src, i) ==
    IF i > Len(src) THEN es
    ELSE AssignAll(Assign(es, src[i].k, src[i].v), src, i + 1)

\* variant: { ...item, ...data, ... }, the enclosing context's fields merged last
itemCtxDataLast(data_, arr, i) ==
    LET item == arr.v[i + 1]
        base == IF item.t \in {"object", "array"}
                THEN AssignAll(OwnEntries(item), OwnEntries(data_), 1)
                ELSE Assign(OwnEntries(data_), "_value", item)
        e1 == Assign(base, "_parent", data_)
        e2 == Assign(e1, "_index", Num(i))
        e3 == Assign(e2, "_first", Bool(i = 0))
    IN Obj(Assign(e3, "_last", Bool(i = Len(arr.v) - 1)))

\* variant: _index counts from one
itemCtxIndexFromOne(data_, arr, i) ==
    LET item == arr.v[i + 1]
        base == IF item.t \in {"object", "array"}
                THEN AssignAll(OwnEntries(data_), OwnEntries(item), 1)
                ELSE Assign(OwnEntries(data_), "_value", item)
        e1 == Assign(base, "_parent", data_)
        e2 == Assign(e1, "_index", Num(i + 1))
        e3 == Assign(e2, "_first", Bool(i = 0))
    IN Obj(Assign(e3, "_last", Bool(i = Len(arr.v) - 1)))

\* variant: { ...data, _parent, _index, _first, _last, ...item }, the element's
\* fields written after the loop's keys
itemCtxReservedFirst(data_, arr, i) ==
    LET item == arr.v[i + 1]
        e1 == Assign(OwnEntries(data_), "_parent", data_)
        e2 == Assign(e1, "_index", Num(i))
        e3 == Assign(e2, "_first", Bool(i = 0))
        e4 == Assign(e3, "_last", Bool(i = Len(arr.v) - 1))
    IN Obj(IF item.t \in {"object", "array"}
           THEN AssignAll(e4, OwnEntries(item), 1)
           ELSE Assign(e4, "_value", item))

\* variant: _value is written for every element, after the element's fields
itemCtxValueAlways(data_, arr, i) ==
    LET item == arr.v[i + 1]
        base == Assign(IF item.t \in {"object", "array"}
                       THEN AssignAll(OwnEntries(data_), OwnEntries(item), 1)
                       ELSE OwnEntries(data_), "_value", item)
        e1 == Assign(base, "_parent", data_)
        e2 == Assign(e1, "_index", Num(i))
        e3 == Assign(e2, "_first", Bool(i = 0))
    IN Obj(Assign(e3, "_last", Bool(i = Len(arr.v) - 1)))

\* the context of iteration i (0-based) of a loop over arr, rendered in data
itemCtx(data_, arr, i) ==
    LET item == arr.v[i + 1]
        base == IF item.t \in {"object", "array"}
                THEN AssignAll(OwnEntries(data_), OwnEntries(item), 1)
                ELSE Assign(OwnEntries(data_), "_value", item)
        e1 == Assign(base, "_parent", data_)
        e2 == Assign(e1, "_index", Num(i))
        e3 == Assign(e2, "_first", Bool(i = 0))
    IN Obj(Assign(e3, "_last", Bool(i = Len(arr.v) - 1)))

-----------------------------------------------------------------------------
(* JSON.stringify(value, null, 6).                                         *)

JsonIndent == 6

RECURSIVE Spaces(_)
Spaces(n) == IF n = 0 THEN "" ELSE " " \o Spaces(n - 1)

RECURSIVE JsonEscape(_)
JsonEscape(s) ==
    IF s = "" THEN ""
    ELSE LET c == SubSeq(s, 1, 1)
             e == CASE c = "\"" -> "\\\""
                    [] c = "\\" -> "\\\\"
                    [] c = "\n" -> "\\n"
                    [] c = "\r" -> "\\r"
                    [] c = "\t" -> "\\t"
                    [] OTHER    -> c
         IN e \o JsonEscape(SubSeq(s, 2, Len(s)))

\* variant: a string is quoted without escaping what is inside
JsonQuoteRaw(s) == "\"" \o s \o "\""

JsonQuote(s) == "\"" \o JsonEscape(s) \o "\""

RECURSIVE JsonValue(_, _)
RECURSIVE JsonItems(_, _, _, _)
\* the members of an array (named = FALSE) or object (named = TRUE) from
\* index i on, each on its own line; an object's undefined members are skipped
JsonItems(q, named, level, i) ==
    IF i > Len(q) THEN ""
    ELSE LET x == IF named THEN q[i].v ELSE q[i]
             skip == named /\ x.t = "undefined"
             first == \A j \in 1..(i - 1) : named /\ q[j].v.t = "undefined"
             text == (IF first THEN "" ELSE ",") \o "\n" \o Spaces(level * JsonIndent)
                     \o (IF named THEN JsonQuote(q[i].k) \o ": " ELSE "")
                     \o (IF x.t = "undefined" THEN "null" ELSE JsonValue(x, level))
         IN (IF skip THEN "" ELSE text) \o JsonItems(q, named, level, i + 1)

\* the text of a defined value nested `level` deep
JsonValue(x, level) ==
    CASE x.t = "null"    -> "null"
      [] x.t = "boolean" -> (IF x.v THEN "true" ELSE "false")
      [] x.t = "number"  -> NumToString(x.v)
      [] x.t = "string"  -> JsonQuote(x.v)
      [] x.t = "array"   ->
            (IF Len(x.v) = 0 THEN "[]"
             ELSE "[" \o JsonItems(x.v, FALSE, level + 1, 1)
                  \o "\n" \o Spaces(level * JsonIndent) \o "]")
      [] x.t = "object"  ->
            (IF \A j \in 1..Len(x.v) : x.v[j].v.t = "undefined" THEN "{}"
             ELSE "{" \o JsonItems(x.v, TRUE, level + 1, 1)
                  \o "\n" \o Spaces(level * JsonIndent) \o "}")

JSONstringify(value) == JsonValue(value, 0)

-----------------------------------------------------------------------------
(* JSON.parse(text), for integers and the escapes JSON.stringify writes.   *)
(* A result is [ok, v, pos]: whether a value was read, the value, and the  *)
(* position after it.                                                      *)

\* s[p], or '' past the end
CharAt(s, p) == IF p < Len(s) THEN SubSeq(s, p + 1, p + 1) ELSE ""

SyntaxError == [ok |-> FALSE, v |-> Null, pos |-> 0]
Parsed(x, p) == [ok |-> TRUE, v |-> x, pos |-> p]

RECURSIVE SkipWs(_, _)
SkipWs(s, p) == IF CharAt(s, p) \in {" ", "\n", "\t", "\r"} THEN SkipWs(s, p + 1) ELSE p

Unescaped(e) ==
    CASE e = "n" -> "\n"
      [] e = "r" -> "\r"
      [] e = "t" -> "\t"
      [] OTHER   -> e

RECURSIVE ParseString(_, _, _)
\* the string whose opening quote is passed, p being inside it
ParseString(s, p, acc) ==
    LET c == CharAt(s, p) IN
    IF c = "" \/ c \in {"\n", "\r", "\t"} THEN SyntaxError
    ELSE IF c = "\"" THEN Parsed(Str(acc), p + 1)
    ELSE IF c = "\\" THEN
        (IF CharAt(s, p + 1) \in {"\"", "\\", "n", "r", "t"}
         THEN ParseString(s, p + 2, acc \o Unescaped(CharAt(s, p + 1)))
         ELSE SyntaxError)
    ELSE ParseString(s, p + 1, acc \o c)

IsDigit(c) == \E d \in 0..9 : Digit(d) = c
DigitValue(c) == CHOOSE d \in 0..9 : Digit(d) = c

RECURSIVE ParseDigits(_, _, _)
ParseDigits(s, p, n) ==
    IF IsDigit(CharAt(s, p)) THEN ParseDigits(s, p + 1, n * 10 + DigitValue(CharAt(s, p)))
    ELSE Parsed(Num(n), p)

ParseNumber(s, p) ==
    IF CharAt(s, p) = "-"
    THEN (IF IsDigit(CharAt(s, p + 1))
          THEN LET r == ParseDigits(s, p + 1, 0) IN Parsed(Num(0 - r.v.v), r.pos)
          ELSE SyntaxError)
    ELSE ParseDigits(s, p, 0)

RECURSIVE ParseValue(_, _)
RECURSIVE ParseElements(_, _, _)
RECURSIVE ParseMembers(_, _, _)

\* the elements of an array from the one at p on
ParseElements(s, p, acc) ==
    LET r == ParseValue(s, p)
        q == SkipWs(s, r.pos)
    IN IF ~r.ok THEN SyntaxError
       ELSE IF CharAt(s, q) = "," THEN ParseElements(s, q + 1, Append(acc, r.v))
       ELSE IF CharAt(s, q) = "]" THEN Parsed(Arr(Append(acc, r.v)), q + 1)
       ELSE SyntaxError

\* the members of an object from the one whose key starts at p on
ParseMembers(s, p, acc) ==
    LET k == IF CharAt(s, p) = "\"" THEN ParseString(s, p + 1, "") ELSE SyntaxError
        c == SkipWs(s, k.pos)
        r == IF k.ok /\ CharAt(s, c) = ":" THEN ParseValue(s, c + 1) ELSE SyntaxError
        q == SkipWs(s, r.pos)
    IN IF ~r.ok THEN SyntaxError
       ELSE IF CharAt(s, q) = "," THEN ParseMembers(s, SkipWs(s, q + 1), Assign(acc, k.v.v, r.v))
       ELSE IF CharAt(s, q) = "}" THEN Parsed(Obj(Assign(acc, k.v.v, r.v)), q + 1)
       ELSE SyntaxError

\* the value that starts at or after p
ParseValue(s, p0) ==
    LET p == SkipWs(s, p0)
        c == CharAt(s, p)
    IN CASE MatchAt(s, "null", p)  -> Parsed(Null, p + 4)
         [] MatchAt(s, "true", p)  -> Parsed(Bool(TRUE), p + 4)
         [] MatchAt(s, "false", p) -> Parsed(Bool(FALSE), p + 5)
         [] c = "\""               -> ParseString(s, p + 1, "")
         [] c = "-" \/ IsDigit(c)  -> ParseNumber(s, p)
         [] c = "["                ->
                (IF CharAt(s, SkipWs(s, p + 1)) = "]"
                 THEN Parsed(Arr(<<>>), SkipWs(s, p + 1) + 1)
                 ELSE ParseElements(s, p + 1, <<>>))
         [] c = "{"                ->
                (IF CharAt(s, SkipWs(s, p + 1)) = "}"
                 THEN Parsed(Obj(<<>>), SkipWs(s, p + 1) + 1)
                 ELSE ParseMembers(s, SkipWs(s, p + 1), <<>>))
         [] OTHER                  -> SyntaxError

JSONparse(s) ==
    LET r == ParseValue(s, 0)
    IN IF r.ok /\ SkipWs(s, r.pos) = Len(s) THEN r ELSE SyntaxError

-----------------------------------------------------------------------------
(* Block matching.                                                         *)

\* a thrown Error
Throw(m) == [thrown |-> TRUE, msg |-> m]

\* variant: an open tag before the close is not counted
NestedOpenNotCounted(nextOpen, nextClose) == FALSE

\* nextOpen !== -1 && nextOpen < nextClose
NestedOpen(nextOpen, nextClose) == nextOpen # -1 /\ nextOpen < nextClose

RECURSIVE ClosingTagLoop(_, _, _, _, _)
\* the while loop of findClosingTag, entered with depth and pos
ClosingTagLoop(tpl, startPos, tagName, depth, pos) ==
    LET openPattern == "{{#" \o tagName
        closeTag    == "{{/" \o tagName \o "}}"
        nextOpen    == IndexOf(tpl, openPattern, pos)
        nextClose   == IndexOf(tpl, closeTag, pos)
    IN
    IF ~(depth > 0 /\ pos < Len(tpl)) THEN
        Throw("Missing closing " \o closeTag)
    ELSE IF nextClose = -1 THEN
        Throw("Missing closing " \o closeTag \o " (started at pos "
              \o NumToString(startPos) \o ")")
    ELSE IF NestedOpen(nextOpen, nextClose) THEN
        ClosingTagLoop(tpl, startPos, tagName, depth + 1, nextOpen + Len(openPattern))
    ELSE IF depth - 1 = 0 THEN
        [thrown |-> FALSE,
         content |-> Slice(tpl, startPos, nextClose),
         end |-> nextClose + Len(closeTag)]
    ELSE
        ClosingTagLoop(tpl, startPos, tagName, depth - 1, nextClose + Len(closeTag))

findClosingTag(tpl, startPos, tagName) ==
    ClosingTagLoop(tpl, startPos, tagName, 1, startPos)

\* candidates.sort(...)[0]: the nearest of the tags found (-1: not found)
NearestTag(nextIf, nextElse, nextEndif) ==
    LET cands == {c \in {[type |-> "if", pos |-> nextIf],
                         [type |-> "else", pos |-> nextElse],
                         [type |-> "endif", pos |-> nextEndif]} : c.pos # -1}
    IN CHOOSE c \in cands : \A d \in cands : c.pos <= d.pos

\* variant: an else of a nested block is taken for the block's own
AnyElse(type, depth) == type = "else"

\* next.type === 'else' && depth === 1
OwnElse(type, depth) == type = "else" /\ depth = 1

RECURSIVE IfBlockLoop(_, _, _, _, _)
\* the while loop of findIfBlock, entered with depth, pos and elsePos
IfBlockLoop(tpl, startPos, depth, pos, elsePos) ==
    LET nextIf    == IndexOf(tpl, "{{#if ", pos)
        nextElse  == IndexOf(tpl, "{{else}}", pos)
        nextEndif == IndexOf(tpl, "{{/if}}", pos)
        next      == NearestTag(nextIf, nextElse, nextEndif)
    IN
    IF ~(pos < Len(tpl)) THEN Throw("Missing {{/if}}")
    ELSE IF nextIf = -1 /\ nextElse = -1 /\ nextEndif = -1 THEN Throw("Missing {{/if}}")
    ELSE IF next.type = "if" THEN
        IfBlockLoop(tpl, startPos, depth + 1, next.pos + 6, elsePos)
    ELSE IF OwnElse(next.type, depth) THEN
        IfBlockLoop(tpl, startPos, depth, next.pos + 8, next.pos)
    ELSE IF next.type = "else" THEN
        IfBlockLoop(tpl, startPos, depth, next.pos + 8, elsePos)
    ELSE IF depth - 1 = 0 THEN
        (IF elsePos # -1
         THEN [thrown |-> FALSE,
               ifContent |-> Slice(tpl, startPos, elsePos),
               hasElse |-> TRUE,
               elseContent |-> Slice(tpl, elsePos + 8, next.pos),
               end |-> next.pos + 7]
         ELSE [thrown |-> FALSE,
               ifContent |-> Slice(tpl, startPos, next.pos),
               hasElse |-> FALSE,
               elseContent |-> "",
               end |-> next.pos + 7])
    ELSE
        IfBlockLoop(tpl, startPos, depth - 1, next.pos + 7, elsePos)

findIfBlock(tpl, startPos) == IfBlockLoop(tpl, startPos, 1, startPos, -1)

-----------------------------------------------------------------------------
(* render.  A call's outcome is [thrown, msg, output, warnings]: whether   *)
(* an Error was thrown and its message, the string built so far (what is   *)
(* returned when nothing is thrown), and the partial names console.warn    *)
(* reported, in order.                                                     *)

Outcome(o, w) == [thrown |-> FALSE, msg |-> "", output |-> o, warnings |-> w]
Failure(m, w) == [thrown |-> TRUE, msg |-> m, output |-> "", warnings |-> w]

\* output += r for the outcome r of a nested render; a throw propagates
Extend(acc, r) ==
    IF r.thrown THEN Failure(r.msg, acc.warnings \o r.warnings)
    ELSE Outcome(acc.output \o r.output, acc.warnings \o r.warnings)

\* output += text
Emit(acc, text) == Outcome(acc.output \o text, acc.warnings)

\* partials[name]: the entry, or undefined
PartialAt(reg, name) == IF name \in DOMAIN reg THEN Str(reg[name]) ELSE Undefined

\* Array.isArray(value)
IsArray(value) == value.t = "array"

\* variant: value ? String(value) : ''
InterpolateIfTruthy(value) ==
    IF IsNullish(value) \/ (value.t \in {"boolean", "number", "string"} /\ ~isTruthy(value))
    THEN "" ELSE ToStr(value)

\* variant: String(value) also of a value that is null or undefined
InterpolateNullish(value) == ToStr(value)

\* (value != null) ? String(value) : ''
Interpolate(value) == IF ~IsNullish(value) THEN ToStr(value) ELSE ""

\* variant: partial !== undefined, so that an empty entry counts as found
PartialFoundDefined(partial) == partial.t # "undefined"

\* if (partial)
PartialFound(partial) == isTruthy(partial)

\* variant: a missing partial is an error
MissingPartialThrows(acc, partialName) == Failure("partial not found", acc.warnings)

\* console.warn(`  Warning: partial "${partialName}" not found`)
MissingPartial(acc, partialName) == Outcome(acc.output, Append(acc.warnings, partialName))

\* variant: an inclusion in a loop body is rendered in the enclosing context
PartialContextEnclosing(data_) ==
    IF EntriesAt(data_.v, "_parent") = {} THEN data_ ELSE GetProp(data_, "_parent")

\* the context render(partial, data, partials) is given: the current one
PartialContext(data_) == data_

\* A run is what a piece of render leaves: the outcome so far (acc) and the
\* object its data argument refers to as it is afterwards (ctx).
Run(acc, ctx) == [acc |-> acc, ctx |-> ctx]

\* variant: Object.assign(data, item, { _parent, ... }) in place of a new
\* object, so that the iteration's fields are written into the enclosing context
EnclosingAssigned(data_, derived) == derived

\* the enclosing context after an iteration whose context `derived` was made
\* by the object literal { ...data, ... }: a new object, data is not written
Enclosing(data_, derived) == data_

RECURSIVE renderIn(_, _, _)
RECURSIVE RenderLoop(_, _, _, _, _)
RECURSIVE EachLoop(_, _, _, _, _, _)

RECURSIVE EachLoopSkipsLast(_, _, _, _, _, _)
\* variant: i < arr.length - 1
EachLoopSkipsLast(content, data_, reg, arr, i, acc) ==
    IF acc.thrown \/ ~(i < Len(arr.v) - 1) THEN Run(acc, data_)
    ELSE LET r == renderIn(content, itemCtx(data_, arr, i), reg)
         IN EachLoopSkipsLast(content, Enclosing(data_, r.ctx), reg, arr, i + 1,
                              Extend(acc, r.acc))

\* for (let i = ...; i < arr.length; i++) output += render(content, itemCtx, partials)
EachLoop(content, data_, reg, arr, i, acc) ==
    IF acc.thrown \/ ~(i < Len(arr.v)) THEN Run(acc, data_)
    ELSE LET r == renderIn(content, itemCtx(data_, arr, i), reg)
         IN EachLoop(content, Enclosing(data_, r.ctx), reg, arr, i + 1, Extend(acc, r.acc))

\* the tag found at tagStart..tagEnd: the outcome after it, the next pos, and
\* the data object afterwards
RenderTag(tpl, data_, reg, tagEnd, tag, acc) ==
    LET afterTag == tagEnd + 2 IN
    IF StartsWith(tag, "#each ") THEN
        LET varName == Trim(Slice(tag, 6, Len(tag)))
            found   == findClosingTag(tpl, afterTag, "each")
            arr     == resolve(data_, varName)
            loop    == EachLoop(found.content, data_, reg, arr, 0, acc)
        IN IF found.thrown
           THEN [acc |-> Failure(found.msg, acc.warnings), pos |-> afterTag, ctx |-> data_]
           ELSE IF IsArray(arr)
           THEN [acc |-> loop.acc, pos |-> found.end, ctx |-> loop.ctx]
           ELSE [acc |-> acc, pos |-> found.end, ctx |-> data_]
    ELSE IF StartsWith(tag, "#if ") THEN
        LET varName == Trim(Slice(tag, 4, Len(tag)))
            block   == findIfBlock(tpl, afterTag)
            value   == resolve(data_, varName)
            taken   == renderIn(block.ifContent, data_, reg)
            other   == renderIn(block.elseContent, data_, reg)
        IN IF block.thrown
           THEN [acc |-> Failure(block.msg, acc.warnings), pos |-> afterTag, ctx |-> data_]
           ELSE IF isTruthy(value)
           THEN [acc |-> Extend(acc, taken.acc), pos |-> block.end, ctx |-> taken.ctx]
           ELSE IF block.hasElse /\ block.elseContent # ""
           THEN [acc |-> Extend(acc, other.acc), pos |-> block.end, ctx |-> other.ctx]
           ELSE [acc |-> acc, pos |-> block.end, ctx |-> data_]
    ELSE IF StartsWith(tag, "> ") THEN
        LET partialName == Trim(Slice(tag, 2, Len(tag)))
            partial     == PartialAt(reg, partialName)
            included    == renderIn(partial.v, PartialContext(data_), reg)
        IN IF PartialFound(partial)
           THEN [acc |-> Extend(acc, included.acc), pos |-> afterTag, ctx |-> included.ctx]
           ELSE [acc |-> MissingPartial(acc, partialName), pos |-> afterTag, ctx |-> data_]
    ELSE IF StartsWith(tag, "json ") THEN
        LET varName == Trim(Slice(tag, 5, Len(tag)))
            value   == resolve(data_, varName)
        IN [acc |-> IF value.t # "undefined" THEN Emit(acc, JSONstringify(value)) ELSE acc,
            pos |-> afterTag, ctx |-> data_]
    ELSE
        LET value == resolve(data_, tag)
        IN [acc |-> Emit(acc, Interpolate(value)),
            pos |-> afterTag, ctx |-> data_]

\* variant: the text after the last tag is dropped
RestOfTemplateDropped(tpl, pos, acc) == acc

\* output += template.slice(pos): no tag is left
RestOfTemplate(tpl, pos, acc) == Emit(acc, Slice(tpl, pos, Len(tpl)))

\* variant: the text of an unterminated tag is dropped
UnterminatedTagDropped(tpl, tagStart, acc) == acc

\* output += template.slice(tagStart): the tag at tagStart has no closing braces
UnterminatedTag(tpl, tagStart, acc) == Emit(acc, Slice(tpl, tagStart, Len(tpl)))

\* the while loop of render, entered with pos and the outcome so far
RenderLoop(tpl, data_, reg, pos, acc) ==
    IF acc.thrown \/ ~(pos < Len(tpl)) THEN Run(acc, data_)
    ELSE LET tagStart == IndexOf(tpl, "{{", pos) IN
         IF tagStart = -1 THEN Run(RestOfTemplate(tpl, pos, acc), data_)
         ELSE LET acc1   == Emit(acc, Slice(tpl, pos, tagStart))
                  tagEnd == IndexOf(tpl, "}}", tagStart)
              IN IF tagEnd = -1 THEN Run(UnterminatedTag(tpl, tagStart, acc1), data_)
                 ELSE LET tag  == Trim(Slice(tpl, tagStart + 2, tagEnd))
                          step == RenderTag(tpl, data_, reg, tagEnd, tag, acc1)
                      IN RenderLoop(tpl, step.ctx, reg, step.pos, step.acc)

\* render with the data object as the call leaves it
renderIn(tpl, data_, reg) == RenderLoop(tpl, data_, reg, 0, Outcome("", <<>>))

\* what render returns or throws, and what it logs
render(tpl, data_, reg) == renderIn(tpl, data_, reg).acc

-----------------------------------------------------------------------------
(* The markdown converter.  Its code is not among the source files (the    *)
(* build guide documents it); it is modelled from the specification's      *)
(* section 4.1.  Where that section is silent the usual regular            *)
(* expressions are assumed: a bold or link part holds at least one         *)
(* character, of any kind, and the line break marker is <br>.              *)

RECURSIVE ReplaceBold(_, _)
\* **x** -> <strong>x</strong>, leftmost first, shortest x, from position pos
ReplaceBold(s, pos) ==
    LET open  == IndexOf(s, "**", pos)
        close == IF open = -1 THEN -1 ELSE IndexOf(s, "**", open + 3)
    IN IF close = -1 THEN Slice(s, pos, Len(s))
       ELSE Slice(s, pos, open) \o "<strong>" \o Slice(s, open + 2, close)
            \o "</strong>" \o ReplaceBold(s, close + 2)

RECURSIVE ReplaceLinks(_, _)
\* [text](url) -> <a href="url" target="_blank" rel="noopener">text</a>
ReplaceLinks(s, pos) ==
    LET open == IndexOf(s, "[", pos)
        mid  == IF open = -1 THEN -1 ELSE IndexOf(s, "](", open + 2)
        end  == IF mid = -1 THEN -1 ELSE IndexOf(s, ")", mid + 3)
    IN IF end = -1 THEN Slice(s, pos, Len(s))
       ELSE Slice(s, pos, open)
            \o "<a href=\"" \o Slice(s, mid + 2, end)
            \o "\" target=\"_blank\" rel=\"noopener\">"
            \o Slice(s, open + 1, mid) \o "</a>" \o ReplaceLinks(s, end + 1)

RECURSIVE ReplaceNewlines(_)
\* every newline -> <br>
ReplaceNewlines(s) ==
    LET n == IndexOf(s, "\n", 0)
    IN IF n = -1 THEN s
       ELSE Slice(s, 0, n) \o "<br>" \o ReplaceNewlines(Slice(s, n + 1, Len(s)))

\* variant: the newlines are left as they are
renderInlineNoBreaks(text) ==
    IF text.t # "string" \/ text.v = "" THEN ""
    ELSE ReplaceLinks(ReplaceBold(text.v, 0), 0)

\* renderInline(text) for a JavaScript value text
renderInline(text) ==
    IF text.t # "string" \/ text.v = "" THEN ""
    ELSE ReplaceNewlines(ReplaceLinks(ReplaceBold(text.v, 0), 0))

RECURSIVE NewlineRun(_, _)
\* the number of consecutive newlines of s from position pos on
NewlineRun(s, pos) ==
    IF pos < Len(s) /\ SubSeq(s, pos + 1, pos + 1) = "\n" THEN 1 + NewlineRun(s, pos + 1)
    ELSE 0

RECURSIVE SplitParagraphs(_, _, _)
\* s split on runs of two or more newlines: the units from `start` on, the
\* scan being at pos
SplitParagraphs(s, start, pos) ==
    IF pos >= Len(s) THEN <<Slice(s, start, Len(s))>>
    ELSE LET run == NewlineRun(s, pos) IN
         IF run >= 2
         THEN <<Slice(s, start, pos)>> \o SplitParagraphs(s, pos + run, pos + run)
         ELSE SplitParagraphs(s, start, pos + 1)

\* variant: headings are not told from paragraphs
BlockElementParagraph(unit) == "<p>" \o renderInline(Str(unit)) \o "</p>"

\* one trimmed, non-empty unit as an element
BlockElement(unit) ==
    IF StartsWith(unit, "### ")
    THEN "<h3>" \o renderInline(Str(Slice(unit, 4, Len(unit)))) \o "</h3>"
    ELSE IF StartsWith(unit, "## ")
    THEN "<h2>" \o renderInline(Str(Slice(unit, 3, Len(unit)))) \o "</h2>"
    ELSE "<p>" \o renderInline(Str(unit)) \o "</p>"

RECURSIVE JoinBlocks(_, _, _)
\* the elements of the non-empty units from index i on, joined by a newline
JoinBlocks(units, i, first) ==
    IF i > Len(units) THEN ""
    ELSE LET unit == Trim(units[i]) IN
         IF unit = "" THEN JoinBlocks(units, i + 1, first)
         ELSE (IF first THEN "" ELSE "\n") \o BlockElement(unit)
              \o JoinBlocks(units, i + 1, FALSE)

\* renderBlock(text) for a JavaScript value text
renderBlock(text) ==
    IF text.t # "string" \/ text.v = "" THEN ""
    ELSE JoinBlocks(SplitParagraphs(text.v, 0, 0), 1, TRUE)

-----------------------------------------------------------------------------
(* The build script: buildContext and the page loop of build().  The site, *)
(* language and page records are the mappings of data.json.                *)

\* !!value
ToBoolean(value) ==
    CASE value.t = "boolean" -> value.v
      [] value.t = "number"  -> value.v # 0
      [] value.t = "string"  -> value.v # ""
      [] value.t \in {"object", "array"} -> TRUE
      [] OTHER               -> FALSE

\* a || b
OrElse(a, b) == IF ToBoolean(a) THEN a ELSE b

\* a + b where one of the two is a string
Plus(a, b) == Str(ToStr(a) \o ToStr(b))

\* a === b for values that are no objects
StrictEquals(a, b) ==
    /\ a.t = b.t
    /\ a.t \in {"undefined", "null", "boolean", "number", "string"}
    /\ a.t \in {"boolean", "number", "string"} => a.v = b.v

\* Object.keys(o)
ObjectKeys(o) == [i \in 1..Len(o.v) |-> o.v[i].k]

\* a TypeError thrown while the context is built
ContextError(m) == [thrown |-> TRUE, msg |-> m, ctx |-> Undefined]

\* pagePath ? pagePath + '/' : ''
PathSlash(pagePath) == IF ToBoolean(pagePath) THEN Plus(pagePath, Str("/")) ELSE Str("")

\* buildContext(site, languages, page): [thrown, msg, ctx]
buildContext(site, languages, page) ==
    LET lang     == GetProp(languages, ToStr(GetProp(page, "lang")))
        pagePath == OrElse(GetProp(page, "path"), Str(""))
        isRoot   == StrictEquals(pagePath, Str(""))
        codes    == ObjectKeys(languages)
        prefixOf(l) == OrElse(GetProp(l, "prefix"), Str(""))
        switchUrl(code) ==
            LET l == GetProp(languages, code) IN
            IF isRoot
            THEN (IF code = codes[1] THEN Str("/") ELSE Plus(GetProp(l, "prefix"), Str("/")))
            ELSE Plus(Plus(Plus(prefixOf(l), Str("/")), pagePath), Str("/"))
        langSwitcher ==
            Arr([i \in 1..Len(codes) |->
                    LET l == GetProp(languages, codes[i]) IN
                    Obj(<<Entry("code", Str(codes[i])),
                          Entry("name", GetProp(l, "name")),
                          Entry("flag", GetProp(l, "flag")),
                          Entry("url", switchUrl(codes[i])),
                          Entry("fullUrl", Plus(GetProp(site, "url"), switchUrl(codes[i]))),
                          Entry("isCurrent",
                                Bool(StrictEquals(Str(codes[i]), GetProp(page, "lang"))))>>)])
        nav      == GetProp(lang, "nav")
        apps     == IF IsNullish(nav) THEN Undefined ELSE GetProp(nav, "apps")
        navApps  ==
            IF ToBoolean(nav) /\ ToBoolean(apps)
            THEN Arr([i \in 1..Len(apps.v) |->
                        Obj(AssignAll(OwnEntries(apps.v[i]),
                                <<Entry("url", Plus(Plus(Plus(prefixOf(lang), Str("/")),
                                                         GetProp(apps.v[i], "slug")), Str("/"))),
                                  Entry("isCurrent",
                                        Bool(StrictEquals(GetProp(apps.v[i], "slug"),
                                                          GetProp(page, "slug"))))>>, 1))])
            ELSE Arr(<<>>)
        footerHomeUrl ==
            IF isRoot THEN OrElse(Plus(prefixOf(lang), Str("/")), Str("/"))
            ELSE Plus(Plus(Plus(prefixOf(lang), Str("/")), pagePath), Str("/"))
        brandUrl ==
            IF ToBoolean(GetProp(lang, "prefix"))
            THEN Plus(GetProp(lang, "prefix"), Str("/")) ELSE Str("/")
        canonicalUrl ==
            Plus(GetProp(site, "url"), Plus(Plus(prefixOf(lang), Str("/")), PathSlash(pagePath)))
        xDefaultUrl ==
            Plus(Plus(GetProp(site, "url"), Str("/")), PathSlash(pagePath))
        privacyUrl == Plus(prefixOf(lang), Str("/privacy/"))
        fields ==
            <<Entry("site", site),
              Entry("lang", lang),
              Entry("langPrefix", prefixOf(lang)),
              Entry("currency", GetProp(lang, "currency")),
              Entry("langSwitcher", langSwitcher),
              Entry("navApps", navApps),
              Entry("brandUrl", brandUrl),
              Entry("footerHomeUrl", footerHomeUrl),
              Entry("canonicalUrl", canonicalUrl),
              Entry("xDefaultUrl", xDefaultUrl),
              Entry("footer", GetProp(lang, "footer")),
              Entry("cookie", GetProp(lang, "cookie")),
              Entry("privacyUrl", privacyUrl)>>
    IN IF IsNullish(lang)
       THEN ContextError("Cannot read properties of " \o ToStr(lang) \o " (reading 'nav')")
       ELSE IF ToBoolean(nav) /\ ToBoolean(apps) /\ ~IsArray(apps)
       THEN ContextError("lang.nav.apps.map is not a function")
       ELSE [thrown |-> FALSE, msg |-> "",
             ctx |-> Obj(AssignAll(fields, OwnEntries(GetProp(page, "data")), 1))]

\* templates[name]: the template, or undefined
TemplateAt(loaded, name) == IF name \in DOMAIN loaded THEN Str(loaded[name]) ELSE Undefined

\* a line of the page loop's report (console.log or console.error)
Reported(ok, page, msg) ==
    [line |-> "page", ok |-> ok, path |-> ToStr(GetProp(page, "outputPath")), msg |-> msg]

\* the lines render's warnings give (console.warn)
Warned(names) ==
    [i \in 1..Len(names) |-> [line |-> "warn", ok |-> TRUE, path |-> "", msg |-> names[i]]]

\* any other line
Logged(msg) == [line |-> "log", ok |-> TRUE, path |-> "", msg |-> msg]

\* variant: after a page that failed the loop is left
NextPageStopOnError(pagePos, failed, count) == IF failed THEN count + 1 ELSE pagePos + 1

\* for (const page of data.pages): after a page, failed or not, the next one
NextPage(pagePos, failed, count) == pagePos + 1

\* path.join(__dirname, page.outputPath) and what follows in the try block,
\* given the context and the HTML: the HTML to write at a path, or what was
\* thrown
TryPath(context, html, outputPath) ==
    IF context.thrown
    THEN [thrown |-> TRUE, msg |-> context.msg, path |-> "", html |-> "", warnings |-> <<>>]
    ELSE IF html.thrown
    THEN [thrown |-> TRUE, msg |-> html.msg, path |-> "", html |-> "",
          warnings |-> html.warnings]
    ELSE IF outputPath.t # "string"
    THEN [thrown |-> TRUE, msg |-> "The \"path\" argument must be of type string",
          path |-> "", html |-> "", warnings |-> html.warnings]
    ELSE [thrown |-> FALSE, msg |-> "", path |-> outputPath.v, html |-> html.output,
          warnings |-> html.warnings]

\* render(template, context, partials) in the try block, given the context
TryRender(context, page, tpl, reg) ==
    TryPath(context, render(tpl, context.ctx, reg), GetProp(page, "outputPath"))

\* the try block of the page loop up to the write
PageAttempt(site, languages, page, tpl, reg) ==
    TryRender(buildContext(site, languages, page), page, tpl, reg)

\* what the loop body comes to for a page: built or failed, the lines warned
\* before, the message, and the file written
PageReport(tpl, name, attempt, disk) ==
    IF ~ToBoolean(tpl)
    THEN [ok |-> FALSE, lines |-> <<>>, msg |-> "template \"" \o name \o "\" not found",
          path |-> "", html |-> ""]
    ELSE IF attempt.thrown
    THEN [ok |-> FALSE, lines |-> Warned(attempt.warnings), msg |-> attempt.msg,
          path |-> "", html |-> ""]
    ELSE IF disk = "write throws"
    THEN [ok |-> FALSE, lines |-> Warned(attempt.warnings),
          msg |-> "EACCES: permission denied", path |-> "", html |-> ""]
    ELSE [ok |-> TRUE, lines |-> Warned(attempt.warnings), msg |-> "",
          path |-> attempt.path, html |-> attempt.html]

-----------------------------------------------------------------------------
(* The validate script: getShape, compareShapes and validate().  A shape   *)
(* is [type, length, hasKeys, keys]: length is -1 and keys are none where  *)
(* the JavaScript object has no such property.                             *)

Shape(type, length, hasKeys, keys) ==
    [type |-> type, length |-> length, hasKeys |-> hasKeys, keys |-> keys]

\* typeof value
TypeOf(value) ==
    CASE value.t \in {"null", "array", "object"} -> "object"
      [] OTHER -> value.t

RECURSIVE getShape(_, _)
getShape(value, depth) ==
    IF IsNullish(value) THEN Shape("null", -1, FALSE, <<>>)
    ELSE IF IsArray(value) THEN Shape("array", Len(value.v), FALSE, <<>>)
    ELSE IF value.t = "object" THEN
        Shape("object", -1, TRUE,
              [i \in 1..Len(value.v) |->
                  LET v == value.v[i].v IN
                  Entry(value.v[i].k,
                        IF depth < 3 THEN getShape(v, depth + 1)
                        ELSE Shape(IF IsArray(v) THEN "array" ELSE TypeOf(v),
                                   IF IsArray(v) THEN Len(v.v) ELSE -1, FALSE, <<>>))])
    ELSE Shape(TypeOf(value), -1, FALSE, <<>>)

\* keys[k] of a shape that has the key k
ShapeAt(keys, k) == keys[CHOOSE i \in EntriesAt(keys, k) : TRUE].v

RECURSIVE compareShapes(_, _, _)
RECURSIVE RefKeyDiffs(_, _, _, _)

\* for (const k of refKeys): the differences from the key at index i on
RefKeyDiffs(refShape, targetShape, path, i) ==
    IF i > Len(refShape.keys) THEN <<>>
    ELSE LET k == refShape.keys[i].k IN
         (IF EntriesAt(targetShape.keys, k) = {}
          THEN <<path \o "." \o k \o ": missing key (exists in EN)">>
          ELSE compareShapes(refShape.keys[i].v, ShapeAt(targetShape.keys, k), path \o "." \o k))
         \o RefKeyDiffs(refShape, targetShape, path, i + 1)

\* for (const k of targetKeys): the keys EN has not
ExtraKeyDiffs(refShape, targetShape, path) ==
    LET extra == SelectSeq(targetShape.keys, LAMBDA e : EntriesAt(refShape.keys, e.k) = {})
    IN [i \in 1..Len(extra) |-> path \o "." \o extra[i].k \o ": extra key (not in EN)"]

compareShapes(refShape, targetShape, path) ==
    IF refShape.type # targetShape.type
    THEN <<path \o ": type mismatch (EN: " \o refShape.type \o ", got: "
           \o targetShape.type \o ")">>
    ELSE (IF refShape.type = "array" /\ refShape.length # targetShape.length
          THEN <<path \o ": array length mismatch (EN: " \o NumToString(refShape.length)
                 \o ", got: " \o NumToString(targetShape.length) \o ")">>
          ELSE <<>>)
         \o (IF refShape.type = "object" /\ refShape.hasKeys /\ targetShape.hasKeys
             THEN RefKeyDiffs(refShape, targetShape, path, 1)
                  \o ExtraKeyDiffs(refShape, targetShape, path)
             ELSE <<>>)

\* p.slug + ':' + p.template
PageKey(p) == ToStr(GetProp(p, "slug")) \o ":" \o ToStr(GetProp(p, "template"))

RECURSIVE ByKey(_, _, _)
\* the pages from index i on put into byKey under their keys
ByKey(pages, i, byKey) ==
    IF i > Len(pages) THEN byKey
    ELSE ByKey(pages, i + 1, Assign(byKey, PageKey(pages[i]), pages[i]))

\* the language directories of data/ in the order sort() gives them
LangOrder == <<"de", "en", "es", "fr", "it", "pt">>
SortedLangs(dirs) == SelectSeq(LangOrder, LAMBDA l : l \in dirs)

\* the directories of data/ other than the reference language's
OtherLangs(dir) == {dir[i].k : i \in 1..Len(dir)} \ {"en"}

\* loadLanguagePages(lang): null when there is no pages.json.  A directory is
\* an entry of dir; it holds the parsed pages.json, or undefined without one.
loadLanguagePages(dir, lang) ==
    IF EntriesAt(dir, lang) = {} \/ ShapeAt(dir, lang).t = "undefined"
    THEN Null ELSE ShapeAt(dir, lang)

\* a line of validate's report about a language: marked as an error or, for
\* an array length, as a warning
ValidateLine(lang, isArrayLen, msg) ==
    [line |-> IF isArrayLen THEN "warning" ELSE "error", ok |-> FALSE, path |-> lang,
     msg |-> msg]

\* diff.includes('array length mismatch')
IsArrayLen(diff) == IndexOf(diff, "array length mismatch", 0) # -1

RECURSIVE PageDiffs(_, _, _, _, _)
\* the lines of the differences of the shared pages, from the EN key at index
\* i on: [lang, msg, isArrayLen]
PageDiffs(lang, refByKey, targetByKey, i, acc) ==
    IF i > Len(refByKey) THEN acc
    ELSE IF EntriesAt(targetByKey, refByKey[i].k) = {}
    THEN PageDiffs(lang, refByKey, targetByKey, i + 1, acc)
    ELSE LET refPage    == refByKey[i].v
             targetPage == ShapeAt(targetByKey, refByKey[i].k)
             diffs == compareShapes(getShape(GetProp(refPage, "data"), 0),
                                    getShape(GetProp(targetPage, "data"), 0), "data")
             lines == [j \in 1..Len(diffs) |->
                          ValidateLine(lang, IsArrayLen(diffs[j]), ToStr(GetProp(refPage, "slug")) \o " ("
                              \o ToStr(GetProp(refPage, "template")) \o "): " \o diffs[j])]
         IN PageDiffs(lang, refByKey, targetByKey, i + 1, acc \o lines)

\* the body of for (const lang of langs.sort()) for a language that has pages:
\* the lines reported and what is added to the counters
LangFindings(lang, refByKey, pages) ==
    LET targetByKey == ByKey(pages.v, 1, <<>>)
        missing == SelectSeq(refByKey, LAMBDA e : EntriesAt(targetByKey, e.k) = {})
        extra   == SelectSeq(targetByKey, LAMBDA e : EntriesAt(refByKey, e.k) = {})
        diffs   == PageDiffs(lang, refByKey, targetByKey, 1, <<>>)
        notLen  == SelectSeq(diffs, LAMBDA l : l.line = "error")
    IN [lines |-> [i \in 1..Len(missing) |->
                      ValidateLine(lang, FALSE, "missing page \"" \o missing[i].k \o "\"")]
                  \o [i \in 1..Len(extra) |->
                      ValidateLine(lang, FALSE, "extra page \"" \o extra[i].k \o "\" (not in EN)")]
                  \o diffs,
        totalWarnings    |-> Len(diffs),
        structuralErrors |-> Len(missing) + Len(extra) + Len(notLen),
        missingPages     |-> Len(missing)]

-----------------------------------------------------------------------------
(* The calls.  A state holds one prepared call; the action makes it.       *)

\* the bounds of the inputs
MaxTokens == 3
MaxPath == 2
MaxItems == 3
MaxDepth == 2
MaxUnits == 3

RECURSIVE Concat(_, _)
\* the strings of q from index i on, concatenated
Concat(q, i) == IF i > Len(q) THEN "" ELSE q[i] \o Concat(q, i + 1)

SeqsUpTo(S, n) == UNION {[1..m -> S] : m \in 0..n}

NoPartials == <<>>
NoCall == [thrown |-> FALSE, msg |-> "", output |-> "", warnings |-> <<>>]

\* a context with the plain fields v and w and the given further entries
Ctx(es) == Obj(<<Entry("v", Str("V")), Entry("w", Str("W"))>> \o es)

\* Templates put together from tags and text in any order, well formed or not.
BlockTokens == {"{{#each xs}}", "{{/each}}", "{{#if c}}", "{{else}}", "{{/if}}", "T", "{{v}}"}
BraceTokens == {"{{v", "{", "}}"}

InitTokens ==
    \E toks \in SeqsUpTo(BlockTokens \cup BraceTokens, MaxTokens),
       c \in BOOLEAN, xs \in {<<>>, <<Num(1)>>} :
        /\ shape = [fam |-> "tokens", toks |-> toks]
        /\ template = Concat(toks, 1)
        /\ data = Ctx(<<Entry("c", Bool(c)), Entry("xs", Arr(xs))>>)
        /\ partials = NoPartials
        /\ op = "render" /\ mdText = Undefined

\* Templates without any tag, in several contexts and registries.
PlainTexts == {"", "plain text", "a { b }} c } d", "{ {#each xs} }{ {/each} }", "line 1\nline 2 "}

InitPlain ==
    \E t \in PlainTexts, c \in BOOLEAN,
       reg \in {NoPartials, [nav |-> "N{{v}}"], [nav |-> "N", foot |-> "{{w}}"]} :
        /\ shape = [fam |-> "plain"]
        /\ template = t
        /\ data = Ctx(<<Entry("c", Bool(c))>>)
        /\ partials = reg
        /\ op = "render" /\ mdText = Undefined

\* One variable tag {{path}}, in a context that holds one value at one path.
Keys == {"a", "b"}
Paths == UNION {[1..n -> Keys] : n \in 1..MaxPath}

\* values and, spelled out, the text each is to be printed as
PathValues ==
    {[val |-> Num(0), str |-> "0"],
     [val |-> Num(42), str |-> "42"],
     [val |-> Bool(FALSE), str |-> "false"],
     [val |-> Bool(TRUE), str |-> "true"],
     [val |-> Str("hi"), str |-> "hi"],
     [val |-> Str(""), str |-> ""],
     [val |-> Null, str |-> ""],
     [val |-> Arr(<<Num(1), Null, Str("x")>>), str |-> "1,,x"],
     [val |-> Obj(<<Entry("k", Num(1))>>), str |-> "[object Object]"]}

RECURSIVE Nest(_, _, _)
\* the value x held at the path segs[i..]
Nest(segs, i, x) ==
    IF i > Len(segs) THEN x ELSE Obj(<<Entry(segs[i], Nest(segs, i + 1, x))>>)

RECURSIVE Dotted(_, _)
Dotted(segs, i) ==
    IF i > Len(segs) THEN ""
    ELSE (IF i > 1 THEN "." ELSE "") \o segs[i] \o Dotted(segs, i + 1)

InitPath ==
    \E held \in Paths, asked \in Paths, x \in PathValues, pad \in {"", " "} :
        /\ shape = [fam |-> "path", held |-> held, asked |-> asked, x |-> x]
        /\ template = "<{{" \o pad \o Dotted(asked, 1) \o pad \o "}}>"
        /\ data = Ctx(<<Entry(held[1], Nest(held, 2, x.val))>>)
        /\ partials = NoPartials
        /\ op = "render" /\ mdText = Undefined

\* One loop {{#each xs}}body{{/each}}, between text and tags or alone.
ItemValues == {[val |-> Num(7), str |-> "7"], [val |-> Str("s"), str |-> "s"]}
NonSequences == {Str("notarray"), Num(3), Null, Obj(<<Entry("length", Num(2))>>)}
EachBodies == {[kind |-> "none", src |-> ""],
               [kind |-> "text", src |-> "T"],
               [kind |-> "item", src |-> "{{_index}}:{{_value}};"]}
Surroundings == {[pre |-> "", post |-> "", preOut |-> "", postOut |-> ""],
                 [pre |-> "A{{v}}", post |-> "{{w}}B", preOut |-> "AV", postOut |-> "WB"]}

InitEach ==
    \E body \in EachBodies, around \in Surroundings,
       xs \in [kind : {"sequence"}, items : SeqsUpTo(ItemValues, MaxItems)]
              \cup [kind : {"other"}, items : {<<x>> : x \in NonSequences}]
              \cup [kind : {"absent"}, items : {<<>>}] :
        /\ shape = [fam |-> "each", body |-> body, around |-> around, xs |-> xs]
        /\ template = around.pre \o "{{#each xs}}" \o body.src \o "{{/each}}" \o around.post
        /\ data = Ctx(CASE xs.kind = "sequence" ->
                              <<Entry("xs", Arr([i \in 1..Len(xs.items) |-> xs.items[i].val]))>>
                         [] xs.kind = "other" -> <<Entry("xs", xs.items[1])>>
                         [] xs.kind = "absent" -> <<>>)
        /\ partials = NoPartials
        /\ op = "render" /\ mdText = Undefined

\* One conditional {{#if flag}}A{{v}}{{else}}B{{w}}{{/if}}, the else optional.
Flags ==
    {[kind |-> "true", val |-> Bool(TRUE)],
     [kind |-> "non-empty string", val |-> Str("s")],
     [kind |-> "non-empty sequence", val |-> Arr(<<Num(0)>>)],
     [kind |-> "nonzero number", val |-> Num(5)],
     [kind |-> "mapping", val |-> Obj(<<Entry("k", Num(1))>>)],
     [kind |-> "empty mapping", val |-> Obj(<<>>)],
     [kind |-> "false", val |-> Bool(FALSE)],
     [kind |-> "zero", val |-> Num(0)],
     [kind |-> "empty string", val |-> Str("")],
     [kind |-> "empty sequence", val |-> Arr(<<>>)],
     [kind |-> "null", val |-> Null],
     [kind |-> "undefined", val |-> Undefined]}

InitIf ==
    \E flag \in Flags, hasElse \in BOOLEAN, around \in Surroundings :
        /\ shape = [fam |-> "if", flag |-> flag.kind, hasElse |-> hasElse, around |-> around]
        /\ template = around.pre \o "{{#if flag}}A{{v}}"
                      \o (IF hasElse THEN "{{else}}B{{w}}" ELSE "")
                      \o "{{/if}}" \o around.post
        /\ data = Ctx(IF flag.kind = "undefined" THEN <<>> ELSE <<Entry("flag", flag.val)>>)
        /\ partials = NoPartials
        /\ op = "render" /\ mdText = Undefined

\* Conditionals nested in both branches of conditionals.  A node is a text
\* or an {{#if}} with an if-branch t and an optional else-branch e (each a
\* sequence of none or one node); a text shows where in the tree it stands,
\* and the {{#if}} nested n deep tests the variable c<n>.
TextNode == [k |-> "text", t |-> <<>>, e |-> <<>>]
IfNode(t, e) == [k |-> "if", t |-> <<t>>, e |-> e]

RECURSIVE IfTrees(_)
IfTrees(d) ==
    IF d = 0 THEN {TextNode}
    ELSE {TextNode} \cup
         {IfNode(t, e) : t \in IfTrees(d - 1),
                         e \in {<<>>} \cup {<<x>> : x \in IfTrees(d - 1)}}

RECURSIVE Unparse(_, _)
\* the template text of a node standing at `place`
Unparse(node, place) ==
    IF node.k = "text" THEN "[" \o place \o "]"
    ELSE "{{#if c" \o NumToString(Len(place) + 1) \o "}}"
         \o Unparse(node.t[1], place \o "t")
         \o (IF node.e = <<>> THEN "" ELSE "{{else}}" \o Unparse(node.e[1], place \o "e"))
         \o "{{/if}}"

InitNestedIf ==
    \E tree \in IfTrees(MaxDepth), conds \in [1..MaxDepth -> BOOLEAN] :
        /\ shape = [fam |-> "nestedIf", tree |-> tree, conds |-> conds]
        /\ template = Unparse(tree, "")
        /\ data = Ctx([n \in 1..MaxDepth |-> Entry("c" \o NumToString(n), Bool(conds[n]))])
        /\ partials = NoPartials
        /\ op = "render" /\ mdText = Undefined

\* One inclusion {{> name}} between text and tags or alone.
Registries == {NoPartials, [nav |-> "N{{v}}"], [nav |-> "N{{v}}", foot |-> "F"],
               [nav |-> "N{{v}}", foot |-> ""]}
PartialNames == {"nav", "foot", "missing"}

InitPartial ==
    \E name \in PartialNames, reg \in Registries, around \in Surroundings, pad \in {"", " "} :
        /\ shape = [fam |-> "partial", name |-> name, around |-> around]
        /\ template = around.pre \o "{{> " \o name \o pad \o "}}" \o around.post
        /\ data = Ctx(<<>>)
        /\ partials = reg
        /\ op = "render" /\ mdText = Undefined

\* One markdown tag {{md field}} or {{mdi field}}.
MarkdownFields == {[kind |-> "absent", val |-> Undefined],
                   [kind |-> "empty", val |-> Str("")],
                   [kind |-> "text", val |-> Str("plain")],
                   [kind |-> "text", val |-> Str("**no email** needed\n\nSee [policy](/privacy/)")],
                   [kind |-> "text", val |-> Num(7)]}

InitMarkdownTag ==
    \E kw \in {"md", "mdi"}, field \in MarkdownFields, around \in Surroundings :
        /\ shape = [fam |-> "mdTag", kw |-> kw, field |-> field, around |-> around]
        /\ template = around.pre \o "{{" \o kw \o " field}}" \o around.post
        /\ data = Ctx(IF field.kind = "absent" THEN <<>> ELSE <<Entry("field", field.val)>>)
        /\ partials = NoPartials
        /\ op = "render" /\ mdText = Undefined

\* Markdown texts: units joined by blank lines.  A unit gives its source,
\* the element it is to become (none for a blank unit) and the text inside.
Units == {[src |-> "plain **b**", tag |-> "p", inner |-> "plain **b**"],
          [src |-> " two\nlines ", tag |-> "p", inner |-> "two\nlines"],
          [src |-> "## Title", tag |-> "h2", inner |-> "Title"],
          [src |-> "### Sub [l](u)", tag |-> "h3", inner |-> "Sub [l](u)"],
          [src |-> "##tight", tag |-> "p", inner |-> "##tight"],
          [src |-> " \t", tag |-> "", inner |-> ""]}
BlankLines == {"\n\n", "\n\n\n"}

RECURSIVE JoinUnits(_, _, _)
JoinUnits(units, sep, i) ==
    IF i > Len(units) THEN ""
    ELSE (IF i > 1 THEN sep ELSE "") \o units[i].src \o JoinUnits(units, sep, i + 1)

InitBlock ==
    \/ \E units \in SeqsUpTo(Units, MaxUnits), sep \in BlankLines :
        /\ shape = [fam |-> "block", units |-> units]
        /\ mdText = Str(JoinUnits(units, sep, 1))
        /\ op = "renderBlock"
        /\ template = "" /\ data = Undefined /\ partials = NoPartials
    \/ \E x \in {Undefined, Null, Num(5), Bool(TRUE), Arr(<<Str("a")>>), Obj(<<>>)},
          f \in {"renderBlock", "renderInline"} :
        /\ shape = [fam |-> "notText"]
        /\ mdText = x
        /\ op = f
        /\ template = "" /\ data = Undefined /\ partials = NoPartials

InlineTexts == {"", "plain", "**bold** and [link](http://x)", "a\nb", "**open [x](", "****"}

InitInline ==
    \E t \in InlineTexts :
        /\ shape = [fam |-> "inline"]
        /\ mdText = Str(t)
        /\ op = "renderInline"
        /\ template = "" /\ data = Undefined /\ partials = NoPartials

\* Inline texts put together from pieces, each given with the HTML it is to
\* become, and ended by nothing or by a marker that is left open.
MaxPieces == 3

Pieces ==
    {[src |-> "a", html |-> "a"],
     [src |-> "**b c**", html |-> "<strong>b c</strong>"],
     [src |-> "[t](u)", html |-> "<a href=\"u\" target=\"_blank\" rel=\"noopener\">t</a>"],
     [src |-> "\n", html |-> "<br>"],
     [src |-> "[**t**](/u/)",
      html |-> "<a href=\"/u/\" target=\"_blank\" rel=\"noopener\"><strong>t</strong></a>"],
     [src |-> "**a[t](u**)",
      html |-> "<strong>a<a href=\"u</strong>\" target=\"_blank\" rel=\"noopener\">t</a>"],
     [src |-> "*i* (x) ]", html |-> "*i* (x) ]"]}
OpenMarkers == {"", "**", "**open", "[", "[t](u"}

RECURSIVE JoinPieces(_, _)
JoinPieces(ps, i) == IF i > Len(ps) THEN "" ELSE ps[i].src \o JoinPieces(ps, i + 1)

InitInlinePieces ==
    \E ps \in SeqsUpTo(Pieces, MaxPieces), open \in OpenMarkers :
        /\ shape = [fam |-> "pieces", ps |-> ps, open |-> open]
        /\ mdText = Str(JoinPieces(ps, 1) \o open)
        /\ op = "renderInline"
        /\ template = "" /\ data = Undefined /\ partials = NoPartials

\* One tag {{json j}} or {{json j.in}} on a value of up to three levels:
\* scalars, and sequences and mappings of members that may hold undefined.
JsonScalars  == {Null, Bool(TRUE), Bool(FALSE), Num(0), Num(-12), Str(""),
                 Str("a \"q\" \\ \n\tz")}
JsonMembers  == JsonScalars \cup
                {Undefined, Arr(<<>>), Obj(<<>>), Arr(<<Num(1), Str("x")>>),
                 Obj(<<Entry("k", Bool(TRUE))>>), Obj(<<Entry("flag", Undefined)>>)}
JsonSubjects ==
    JsonMembers
    \cup {Arr(<<x, y>>) : x, y \in JsonMembers}
    \cup {Obj(<<Entry("a", x), Entry("b c", y)>>) : x, y \in JsonMembers}
    \cup {Obj(<<Entry("a", Arr(<<x, Obj(<<Entry("deep", y)>>)>>))>>) : x, y \in JsonMembers}

InitJson ==
    \E subject \in JsonSubjects, nested \in BOOLEAN, pad \in {"", " "} :
        /\ shape = [fam |-> "json", subject |-> subject]
        /\ template = "<{{json " \o (IF nested THEN "j.in" ELSE "j") \o pad \o "}}>"
        /\ data = Ctx(<<Entry("j", IF nested THEN Obj(<<Entry("in", subject)>>) ELSE subject)>>)
        /\ partials = NoPartials
        /\ op = "render" /\ mdText = Undefined

\* A loop over mappings whose body looks up v (in the enclosing context, and
\* in an element or not), w (in the enclosing context only) and u (in an
\* element or nowhere; in the enclosing iteration too when the loop is nested).
\* A field is given by its kind: the value it holds, and the text to be printed.
FieldKinds == {[kind |-> "absent", val |-> Undefined, str |-> ""],
               [kind |-> "string", val |-> Str("e"), str |-> "e"],
               [kind |-> "zero", val |-> Num(0), str |-> "0"],
               [kind |-> "null", val |-> Null, str |-> ""]}
Elements == {el \in [v : FieldKinds, u : {f \in FieldKinds : f.kind \in {"absent", "string"}}] :
                 el.u.kind = "absent" \/ el.v.kind \in {"absent", "string"}}

Field(k, f) == IF f.kind = "absent" THEN <<>> ELSE <<Entry(k, f.val)>>
Element(el) == Obj(<<Entry("id", Num(1))>> \o Field("v", el.v) \o Field("u", el.u))

InitMerge ==
    \E els \in SeqsUpTo(Elements, MaxItems), nested \in BOOLEAN :
        LET items == Arr([i \in 1..Len(els) |-> Element(els[i])]) IN
        /\ shape = [fam |-> "merge", els |-> els, nested |-> nested]
        /\ template = IF nested
                      THEN "{{#each xs}}{{#each ys}}{{v}}|{{w}}|{{u}};{{/each}}{{/each}}"
                      ELSE "{{#each xs}}{{v}}|{{w}}|{{u}};{{/each}}"
        /\ data = Ctx(<<Entry("xs", IF nested
                                    THEN Arr(<<Obj(<<Entry("v", Str("OV")), Entry("u", Str("OU")),
                                                     Entry("ys", items)>>)>>)
                                    ELSE items)>>)
        /\ partials = NoPartials
        /\ op = "render" /\ mdText = Undefined

\* A loop whose body has a conditional, an inclusion or a loop of its own,
\* then a probe of the keys an iteration adds, then nothing or an {{#each}}
\* left open (which makes the call throw).  The context is kept in the shape.
FrameItems  == {Num(7), Obj(<<Entry("id", Num(1)), Entry("v", Str("e"))>>), Arr(<<Num(1)>>)}
FrameBodies == {"{{_index}}", "{{#if _first}}F{{else}}{{> row}}{{/if}}", "{{> row}}",
                "{{#each ys}}{{_value}}{{/each}}"}
FrameRows   == {"R{{_index}};", "{{#each ys}}{{_value}}{{/each}}", "{{#if c}}"}
FrameProbe  == "[{{_index}}{{_value}}{{_first}}{{_last}}{{_parent}}{{id}}{{0}}{{v}}]"

InitFrame ==
    \E xs \in SeqsUpTo(FrameItems, MaxItems), body \in FrameBodies, row \in FrameRows,
       open \in {"", "{{#each xs}}"} :
        LET ctx == Ctx(<<Entry("c", Bool(TRUE)), Entry("xs", Arr(xs)),
                         Entry("ys", Arr(<<Num(1), Num(2)>>))>>) IN
        /\ shape = [fam |-> "frame", data0 |-> ctx, body |-> body, row |-> row]
        /\ template = "{{#each xs}}" \o body \o "{{/each}}" \o FrameProbe \o open
        /\ data = ctx
        /\ partials = [row |-> row]
        /\ op = "render" /\ mdText = Undefined

\* The build of up to MaxPages pages of several kinds.  A kind gives the
\* page record (without its output path), whether its build is to fail before
\* anything is written, and the HTML to be written otherwise.
MaxPages == 2

BuildSite == Obj(<<Entry("url", Str("https://s.io"))>>)
BuildLanguages ==
    Obj(<<Entry("en", Obj(<<Entry("name", Str("English")), Entry("flag", Str("gb")),
                            Entry("prefix", Str("")), Entry("currency", Str("$")),
                            Entry("nav", Obj(<<Entry("apps",
                                Arr(<<Obj(<<Entry("slug", Str("app")),
                                            Entry("name", Str("App"))>>)>>))>>))>>)),
          Entry("de", Obj(<<Entry("name", Str("Deutsch")), Entry("prefix", Str("/de"))>>))>>)
BuildTemplates ==
    [page   |-> "<{{title}}|{{canonicalUrl}}|{{#each langSwitcher}}{{code}}={{url}}"
                \o "{{#if isCurrent}}*{{/if}};{{/each}}{{#each navApps}}{{url}}{{/each}}{{> foot}}>",
     broken |-> "<{{title}}>{{#each navApps}}{{name}}",
     empty  |-> ""]
BuildPartials == [foot |-> "{{brandUrl}}{{privacyUrl}}"]

PageOf(tpl, lang, path, slug, title) ==
    <<Entry("template", Str(tpl)), Entry("lang", Str(lang)), Entry("path", Str(path)),
      Entry("slug", Str(slug)), Entry("data", Obj(<<Entry("title", Str(title))>>))>>

PageKinds ==
    {[kind |-> "home", page |-> PageOf("page", "en", "", "home", "Home"),
      hasPath |-> TRUE, fails |-> FALSE,
      html |-> "<Home|https://s.io/|en=/*;de=/de/;/app///privacy/>"],
     [kind |-> "app", page |-> PageOf("page", "de", "app", "app", "App"),
      hasPath |-> TRUE, fails |-> FALSE,
      html |-> "<App|https://s.io/de/app/|en=/app/;de=/de/app/*;/de//de/privacy/>"],
     [kind |-> "no template", page |-> PageOf("gone", "en", "", "home", "Home"),
      hasPath |-> TRUE, fails |-> TRUE, html |-> ""],
     [kind |-> "empty template", page |-> PageOf("empty", "en", "", "home", "Home"),
      hasPath |-> TRUE, fails |-> TRUE, html |-> ""],
     [kind |-> "no language", page |-> PageOf("page", "xx", "", "home", "Home"),
      hasPath |-> TRUE, fails |-> TRUE, html |-> ""],
     [kind |-> "render throws", page |-> PageOf("broken", "en", "", "home", "Home"),
      hasPath |-> TRUE, fails |-> TRUE, html |-> ""],
     [kind |-> "no output path", page |-> PageOf("page", "en", "", "home", "Home"),
      hasPath |-> FALSE, fails |-> TRUE, html |-> ""]}

\* the output path of the page at index i
OutPath(i) == "out/" \o NumToString(i) \o "/index.html"

PageRecord(kind, i) ==
    Obj(kind.page \o (IF kind.hasPath THEN <<Entry("outputPath", Str(OutPath(i)))>> ELSE <<>>))

InitBuild ==
    \E kinds \in SeqsUpTo(PageKinds, MaxPages), found \in BOOLEAN :
        /\ found \/ kinds = <<>>
        /\ shape = [fam |-> "build", kinds |-> kinds]
        /\ data = IF found
                  THEN Obj(<<Entry("site", BuildSite), Entry("languages", BuildLanguages),
                             Entry("pages", Arr([i \in 1..Len(kinds) |-> PageRecord(kinds[i], i)]))>>)
                  ELSE Undefined
        /\ templates = BuildTemplates
        /\ partials = BuildPartials
        /\ op = "build" /\ template = "" /\ mdText = Undefined
        /\ locals = <<>> /\ console = <<>> /\ files = <<>> /\ exitCode = -1
        /\ dataDir = <<>>

\* no script runs: a function of the engine is called on its own
\* Loops and conditionals nested in each other.  A node is a text or a block
\* ({{#each xs}} or {{#if _first}} with an else-branch) whose body b is a
\* sequence of nodes: one text, one block, or a block followed by a sibling
\* loop that holds a text.  A text shows where in the tree it stands and the
\* index of the iteration it is rendered in.
MaxNest == 3

Leaf == [k |-> "text", b |-> <<>>]
Block(k, b) == [k |-> k, b |-> b]

RECURSIVE Bodies(_)
Bodies(d) ==
    IF d = 0 THEN {<<Leaf>>}
    ELSE LET blocks == {Block(k, b) : k \in {"each", "if"}, b \in Bodies(d - 1)} IN
         {<<Leaf>>} \cup {<<x>> : x \in blocks}
         \cup {<<x, Block("each", <<Leaf>>)>> : x \in blocks}

RECURSIVE UnparseBody(_, _, _)
\* the template text of the nodes of body from index i on, standing at place
UnparseBody(body, i, place) ==
    IF i > Len(body) THEN ""
    ELSE LET node == body[i]
             here == place \o NumToString(i)
         IN (CASE node.k = "text" -> "[" \o here \o "{{_index}}]"
               [] node.k = "each" -> "{{#each xs}}" \o UnparseBody(node.b, 1, here)
                                     \o "{{/each}}"
               [] node.k = "if"   -> "{{#if _first}}" \o UnparseBody(node.b, 1, here)
                                     \o "{{else}}(" \o here \o ")" \o "{{/if}}")
            \o UnparseBody(body, i + 1, place)

InitNested ==
    \E body \in Bodies(MaxNest) :
        /\ shape = [fam |-> "nested", body |-> body]
        /\ template = UnparseBody(body, 1, "")
        /\ data = Ctx(<<Entry("xs", Arr(<<Obj(<<Entry("n", Num(1))>>),
                                          Obj(<<Entry("n", Num(2))>>)>>))>>)
        /\ partials = NoPartials
        /\ op = "render" /\ mdText = Undefined

\* A loop over up to MaxRow elements of every kind, alone or in the body of
\* a loop over two mappings, whose body prints the keys an iteration adds:
\* index, first, last, current value, and what the back-reference leads to.
MaxRow == 2

KeyItems ==
    {[kind |-> "number", val |-> Num(7), str |-> "7"],
     [kind |-> "boolean", val |-> Bool(FALSE), str |-> "false"],
     [kind |-> "null", val |-> Null, str |-> ""],
     [kind |-> "sequence", val |-> Arr(<<Num(1), Num(2)>>), str |-> "1,2"],
     [kind |-> "mapping", val |-> Obj(<<Entry("id", Num(1))>>), str |-> ""],
     [kind |-> "colliding",
      val |-> Obj(<<Entry("_index", Str("X")), Entry("_first", Str("X")),
                    Entry("_last", Str("X")), Entry("_parent", Obj(<<Entry("v", Str("EP"))>>)),
                    Entry("_value", Str("EV"))>>),
      str |-> ""]}

KeyBody == "{{_index}}|{{_first}}|{{_last}}|{{_value}}|{{_parent.v}}|{{_parent._index}}"
           \o "|{{_parent._parent.v}};"

InitKeys ==
    \E items \in SeqsUpTo(KeyItems, MaxRow), nested \in BOOLEAN :
        /\ shape = [fam |-> "keys", items |-> items, nested |-> nested]
        /\ template = IF nested
                      THEN "{{#each ys}}{{#each xs}}" \o KeyBody \o "{{/each}}{{/each}}"
                      ELSE "{{#each xs}}" \o KeyBody \o "{{/each}}"
        /\ data = Ctx(<<Entry("xs", Arr([i \in 1..Len(items) |-> items[i].val])),
                        Entry("ys", Arr(<<Obj(<<Entry("v", Str("P0"))>>),
                                          Obj(<<Entry("v", Str("P1"))>>)>>))>>)
        /\ partials = NoPartials
        /\ op = "render" /\ mdText = Undefined

\* An inclusion in a loop body and one after the loop, each followed by
\* lookups in the including template.  The included template reads the keys
\* of the iteration, has a loop of its own, or includes another template.
IncludeItems ==
    {[val |-> Obj(<<Entry("id", Num(1))>>), id |-> "1", v |-> "V"],
     [val |-> Obj(<<Entry("id", Num(2)), Entry("v", Str("e"))>>), id |-> "2", v |-> "e"],
     [val |-> Num(7), id |-> "", v |-> "V"]}
IncludeRows ==
    {[kind |-> "keys", src |-> "[{{_index}}:{{id}}:{{v}}:{{_parent.v}}]"],
     [kind |-> "loop", src |-> "[{{#each ys}}{{_index}}{{_value}}{{/each}}]"],
     [kind |-> "nested", src |-> "[{{> leaf}}]"]}

InitInclude ==
    \E items \in SeqsUpTo(IncludeItems, MaxRow), row \in IncludeRows :
        /\ shape = [fam |-> "include", items |-> items, row |-> row.kind]
        /\ template = "{{#each xs}}{{> row}}<{{_index}}{{id}}{{v}}>{{/each}}"
                      \o "{{> row}}<{{_index}}{{id}}{{v}}>"
        /\ data = Ctx(<<Entry("xs", Arr([i \in 1..Len(items) |-> items[i].val])),
                        Entry("ys", Arr(<<Num(1), Num(2)>>))>>)
        /\ partials = [row |-> row.src, leaf |-> "{{_index}}{{id}}"]
        /\ op = "render" /\ mdText = Undefined

\* A close or else tag that no open block of the template takes, between two
\* well-formed pieces, in a context without and with fields of the tags' names.
StrayPieces ==
    {[src |-> "", out |-> ""],
     [src |-> "a", out |-> "a"],
     [src |-> "{{v}}", out |-> "V"],
     [src |-> "{{#if c}}x{{else}}z{{/if}}", out |-> "x"],
     [src |-> "{{#each xs}}y{{/each}}", out |-> "yy"]}
StrayTags ==
    {[src |-> "{{/each}}", field |-> "X"],
     [src |-> "{{/if}}", field |-> "Y"],
     [src |-> "{{else}}", field |-> "E"],
     [src |-> "{{ else }}", field |-> "E"]}
StrayFields ==
    <<Entry("/each", Str("X")), Entry("/if", Str("Y")), Entry("else", Str("E"))>>

InitStray ==
    \E before \in StrayPieces, stray \in StrayTags, after \in StrayPieces,
       named \in BOOLEAN :
        /\ shape = [fam |-> "stray", before |-> before.out, after |-> after.out,
                    tag |-> stray.src, named |-> named,
                    field |-> IF named THEN stray.field ELSE ""]
        /\ template = before.src \o stray.src \o after.src
        /\ data = Ctx(<<Entry("c", Bool(TRUE)), Entry("xs", Arr(<<Num(1), Num(2)>>))>>
                      \o (IF named THEN StrayFields ELSE <<>>))
        /\ partials = NoPartials
        /\ op = "render" /\ mdText = Undefined

\* Templates whose tags have blanks inside the delimiters.  A template is a
\* sequence of pieces, a piece the content of a tag or a text; the tags whose
\* index is in padded get the blanks lead and trail around their content.
TagPiece(content) == [tag |-> TRUE, text |-> content]
TextPiece(text) == [tag |-> FALSE, text |-> text]

PaddedBases ==
    {<<TagPiece("#each xs"), TagPiece("n"), TagPiece("/each")>>,
     <<TagPiece("#if c1"), TextPiece("A"), TagPiece("else"), TextPiece("B"), TagPiece("/if")>>,
     <<TagPiece("#each xs"), TagPiece("#if _first"), TextPiece("F"), TagPiece("/if"),
       TagPiece("/each")>>,
     <<TagPiece("#each xs"), TagPiece("#each ys"), TagPiece("_value"), TagPiece("/each"),
       TextPiece(";"), TagPiece("/each")>>,
     <<TagPiece("#if c1"), TagPiece("#if c0"), TextPiece("A"), TagPiece("/if"),
       TagPiece("else"), TextPiece("B"), TagPiece("/if")>>}

RECURSIVE PaddedText(_, _, _, _, _)
\* the template text of the pieces of base from index i on
PaddedText(base, padded, lead, trail, i) ==
    IF i > Len(base) THEN ""
    ELSE (IF ~base[i].tag THEN base[i].text
          ELSE IF i \in padded THEN "{{" \o lead \o base[i].text \o trail \o "}}"
          ELSE "{{" \o base[i].text \o "}}")
         \o PaddedText(base, padded, lead, trail, i + 1)

InitPadded ==
    \E base \in PaddedBases, lead \in {"", " "}, trail \in {"", " ", "  "} :
        \E padded \in SUBSET {i \in 1..Len(base) : base[i].tag} :
            /\ (lead = "" /\ trail = "") <=> padded = {}
            /\ shape = [fam |-> "padded", base |-> base, padded |-> padded,
                        plain |-> PaddedText(base, {}, "", "", 1)]
            /\ template = PaddedText(base, padded, lead, trail, 1)
            /\ data = Ctx(<<Entry("xs", Arr(<<Obj(<<Entry("n", Num(1))>>),
                                              Obj(<<Entry("n", Num(2))>>)>>)),
                            Entry("ys", Arr(<<Str("y")>>)),
                            Entry("c1", Bool(TRUE)), Entry("c0", Bool(FALSE))>>)
            /\ partials = NoPartials
            /\ op = "render" /\ mdText = Undefined

\* A value held at one path and asked for at another with the tag written
\* {{@ path}}; atKey tells whether the context also has a member whose name
\* is the tag's text up to the first dot.
InitRaw ==
    \E held \in Paths, asked \in Paths, x \in PathValues, atKey \in BOOLEAN :
        /\ shape = [fam |-> "raw", held |-> held, asked |-> asked, x |-> x, atKey |-> atKey]
        /\ template = "<{{@ " \o Dotted(asked, 1) \o "}}>"
        /\ data = Ctx(<<Entry(held[1], Nest(held, 2, x.val))>>
                      \o (IF atKey THEN <<Entry("@ " \o asked[1], Str("AT"))>> ELSE <<>>))
        /\ partials = NoPartials
        /\ op = "render" /\ mdText = Undefined

\* Sites for validate: EN with two pages of one slug, and up to MaxLangs
\* other languages, each differing from EN in one way.
MaxLangs == 2

LangDirs == <<"fr", "de", "es", "it", "pt">>

\* the data of the page home:page.  with[k] tells whether the member named k
\* is there; tags is the number of elements of the array of tags.
HomeData(without, tags, title) ==
    LET Members(es) == SelectSeq(es, LAMBDA e : e.k \notin without) IN
    Obj(Members(<<
        Entry("title", title),
        Entry("hero", Obj(Members(<<
            Entry("badge", Str("B")),
            Entry("cta", Obj(Members(<<
                Entry("label", Str("L")),
                Entry("more", Obj(Members(<<
                    Entry("fourth", Obj(Members(<<
                        Entry("fifth", Num(5)),
                        Entry("sixth", Num(6))>>)))>>)))>>)))>>))),
        Entry("items", Arr(<<Obj(Members(<<Entry("question", Str("Q")),
                                           Entry("answer", Str("A"))>>))>>)),
        Entry("tags", Arr([i \in 1..tags |-> Str("t")])),
        Entry("extra", Str("E"))>>))

SitePage(slug, tpl, data_) ==
    Obj(<<Entry("slug", Str(slug)), Entry("template", Str(tpl)), Entry("data", data_)>>)

FaqPage == SitePage("home", "faq", Obj(<<Entry("title", Str("F"))>>))

ENPages == Arr(<<SitePage("home", "page", HomeData({"extra"}, 1, Str("T"))), FaqPage>>)

\* the ways a language differs from EN; key is the member EN has and the
\* language has not, or the other way round
LangKinds ==
    {[kind |-> "same", key |-> ""],
     [kind |-> "key missing", key |-> "title"],
     [kind |-> "key missing", key |-> "badge"],
     [kind |-> "key missing", key |-> "label"],
     [kind |-> "key missing", key |-> "fourth"],
     [kind |-> "key missing", key |-> "fifth"],
     [kind |-> "key missing", key |-> "answer"],
     [kind |-> "extra key", key |-> "extra"],
     [kind |-> "array longer", key |-> ""],
     [kind |-> "type changed", key |-> ""],
     [kind |-> "page missing", key |-> ""],
     [kind |-> "extra page", key |-> ""],
     [kind |-> "no pages.json", key |-> ""]}

LangPages(kind) ==
    LET home(data_) == SitePage("home", "page", data_)
        same == HomeData({"extra"}, 1, Str("T"))
    IN CASE kind.kind = "same"          -> Arr(<<home(same), FaqPage>>)
         [] kind.kind = "key missing"   -> Arr(<<home(HomeData({"extra", kind.key}, 1, Str("T"))),
                                                 FaqPage>>)
         [] kind.kind = "extra key"     -> Arr(<<home(HomeData({}, 1, Str("T"))), FaqPage>>)
         [] kind.kind = "array longer"  -> Arr(<<home(HomeData({"extra"}, 2, Str("T"))), FaqPage>>)
         [] kind.kind = "type changed"  -> Arr(<<home(HomeData({"extra"}, 1, Num(7))), FaqPage>>)
         [] kind.kind = "page missing"  -> Arr(<<home(same)>>)
         [] kind.kind = "extra page"    -> Arr(<<FaqPage, home(same),
                                                 SitePage("more", "page", Obj(<<>>))>>)
         [] kind.kind = "no pages.json" -> Undefined

InitValidate ==
    \E kinds \in SeqsUpTo(LangKinds, MaxLangs), en \in {"pages", "no pages.json", "no directory"} :
        /\ en # "pages" => Len(kinds) <= 1
        /\ shape = [fam |-> "validate", en |-> en, kinds |-> kinds]
        /\ dataDir = [i \in 1..Len(kinds) |-> Entry(LangDirs[i], LangPages(kinds[i]))]
                     \o (CASE en = "pages" -> <<Entry("en", ENPages)>>
                           [] en = "no pages.json" -> <<Entry("en", Undefined)>>
                           [] OTHER -> <<>>)
        /\ op = "validate" /\ template = "" /\ mdText = Undefined
        /\ data = Undefined /\ partials = <<>> /\ templates = <<>>
        /\ locals = <<>> /\ console = <<>> /\ files = <<>> /\ exitCode = -1

NoScript ==
    /\ templates = <<>> /\ locals = <<>> /\ console = <<>> /\ files = <<>>
    /\ dataDir = <<>> /\ exitCode = -1

Init ==
    /\ pc = "ready"
    /\ result = NoCall
    /\ \/ /\ NoScript
          /\ \/ InitTokens
             \/ InitPlain
             \/ InitPath
             \/ InitEach
             \/ InitIf
             \/ InitNestedIf
             \/ InitPartial
             \/ InitMarkdownTag
             \/ InitBlock
             \/ InitInline
             \/ InitInlinePieces
             \/ InitJson
             \/ InitMerge
             \/ InitFrame
             \/ InitRaw
             \/ InitNested
             \/ InitPadded
             \/ InitKeys
             \/ InitInclude
             \/ InitStray
       \/ InitBuild
       \/ InitValidate

\* html = render(template, context, partials)
CallRender ==
    /\ pc = "ready" /\ op = "render"
    /\ LET call == renderIn(template, data, partials)
       IN result' = call.acc /\ data' = call.ctx
    /\ pc' = "done"
    /\ UNCHANGED <<op, shape, template, mdText, partials>>
    /\ UNCHANGED <<templates, locals, console, files, dataDir, exitCode>>

\* html = renderBlock(text)
CallRenderBlock ==
    /\ pc = "ready" /\ op = "renderBlock"
    /\ result' = Outcome(renderBlock(mdText), <<>>)
    /\ pc' = "done"
    /\ UNCHANGED <<op, shape, template, mdText, data, partials>>
    /\ UNCHANGED <<templates, locals, console, files, dataDir, exitCode>>

\* html = renderInline(text)
CallRenderInline ==
    /\ pc = "ready" /\ op = "renderInline"
    /\ result' = Outcome(renderInline(mdText), <<>>)
    /\ pc' = "done"
    /\ UNCHANGED <<op, shape, template, mdText, data, partials>>
    /\ UNCHANGED <<templates, locals, console, files, dataDir, exitCode>>

\* build() up to the page loop: data.json is read, templates and partials
\* are loaded (they are in the state already)
BuildStart ==
    /\ pc = "ready" /\ op = "build"
    /\ IF data.t = "undefined"
       THEN /\ console' = Append(console, Logged("ERROR: data.json not found"))
            /\ exitCode' = 1
            /\ pc' = "done"
            /\ UNCHANGED locals
       ELSE /\ console' = Append(console, Logged("Pages: "
                                    \o NumToString(Len(GetProp(data, "pages").v))))
            /\ locals' = [built |-> 0, errors |-> 0, pagePos |-> 1]
            /\ pc' = "loop"
            /\ UNCHANGED exitCode
    /\ UNCHANGED <<op, shape, template, mdText, data, partials, result, templates, files,
                   dataDir>>

\* the end of an iteration: the report, the counters and the file
PageDone(page, count, report) ==
    /\ console' = console \o report.lines \o <<Reported(report.ok, page, report.msg)>>
    /\ locals' = IF report.ok
                 THEN [locals EXCEPT !.built = @ + 1,
                                     !.pagePos = NextPage(@, FALSE, count)]
                 ELSE [locals EXCEPT !.errors = @ + 1,
                                     !.pagePos = NextPage(@, TRUE, count)]
    /\ files' = IF report.ok
                THEN [f \in DOMAIN files \cup {report.path} |->
                         IF f = report.path THEN report.html ELSE files[f]]
                ELSE files

\* the body of the loop for a page, of count pages
PageLoopBody(page, count, disk) ==
    LET name == ToStr(GetProp(page, "template"))
        tpl  == TemplateAt(templates, name)
    IN PageDone(page, count,
                PageReport(tpl, name,
                           PageAttempt(GetProp(data, "site"), GetProp(data, "languages"),
                                       page, tpl.v, partials),
                           disk))

\* one iteration of for (const page of data.pages); the disk takes the file
\* or the write throws
BuildPage ==
    /\ pc = "loop" /\ op = "build"
    /\ locals.pagePos <= Len(GetProp(data, "pages").v)
    /\ \E disk \in {"written", "write throws"} :
        PageLoopBody(GetProp(data, "pages").v[locals.pagePos],
                     Len(GetProp(data, "pages").v), disk)
    /\ UNCHANGED <<op, shape, template, mdText, data, partials, result, templates, pc,
                   dataDir, exitCode>>

\* after the loop: the summary, and exit code 1 when a page failed
BuildExit ==
    /\ pc = "loop" /\ op = "build"
    /\ locals.pagePos > Len(GetProp(data, "pages").v)
    /\ console' = Append(console, Logged("Done! Built " \o NumToString(locals.built) \o " pages."
                            \o (IF locals.errors # 0
                                THEN " " \o NumToString(locals.errors) \o " error(s)." ELSE "")))
    /\ exitCode' = IF locals.errors # 0 THEN 1 ELSE 0
    /\ pc' = "done"
    /\ UNCHANGED <<op, shape, template, mdText, data, partials, result, templates, locals,
                   files, dataDir>>

\* validate() up to the loop over the languages
ValidateStart ==
    /\ pc = "ready" /\ op = "validate"
    /\ LET refPages == loadLanguagePages(dataDir, "en") IN
       IF ~ToBoolean(refPages)
       THEN /\ console' = Append(console, Logged("ERROR: EN pages not found at data/en/pages.json"))
            /\ exitCode' = 1
            /\ pc' = "done"
            /\ UNCHANGED locals
       ELSE /\ locals' = [langs |-> SortedLangs(OtherLangs(dataDir)),
                          refByKey |-> ByKey(refPages.v, 1, <<>>),
                          totalWarnings |-> 0, structuralErrors |-> 0, missingPages |-> 0,
                          langPos |-> 1]
            /\ pc' = "loop"
            /\ UNCHANGED <<console, exitCode>>
    /\ UNCHANGED <<op, shape, template, mdText, data, partials, result, templates, files,
                   dataDir>>

\* variant: a language without pages.json is counted as a structural error too
NoPagesFileAnError(counters) ==
    [counters EXCEPT !.totalWarnings = @ + 1, !.structuralErrors = @ + 1, !.langPos = @ + 1]

\* totalWarnings++; continue
NoPagesFile(counters) == [counters EXCEPT !.totalWarnings = @ + 1, !.langPos = @ + 1]

\* one iteration of for (const lang of langs.sort())
ValidateLang ==
    /\ pc = "loop" /\ op = "validate"
    /\ locals.langPos <= Len(locals.langs)
    /\ LET lang  == locals.langs[locals.langPos]
           pages == loadLanguagePages(dataDir, lang)
           found == LangFindings(lang, locals.refByKey, pages)
       IN IF ~ToBoolean(pages)
          THEN /\ console' = Append(console, ValidateLine(lang, FALSE, "pages.json not found"))
               /\ locals' = NoPagesFile(locals)
          ELSE /\ console' = console \o found.lines
               /\ locals' = [locals EXCEPT
                                !.totalWarnings = @ + found.totalWarnings,
                                !.structuralErrors = @ + found.structuralErrors,
                                !.missingPages = @ + found.missingPages,
                                !.langPos = @ + 1]
    /\ UNCHANGED <<op, shape, template, mdText, data, partials, result, templates, pc, files,
                   dataDir, exitCode>>

\* the summary, return structuralErrors, and process.exit(warnings > 0 ? 1 : 0)
ValidateExit ==
    /\ pc = "loop" /\ op = "validate"
    /\ locals.langPos > Len(locals.langs)
    /\ LET arrayWarnings == locals.totalWarnings - locals.structuralErrors IN
       console' = console \o
           (IF locals.totalWarnings = 0
            THEN <<Logged("All " \o NumToString(Len(locals.langs))
                          \o " languages match EN structure")>>
            ELSE (IF locals.structuralErrors > 0
                  THEN <<Logged(NumToString(locals.structuralErrors)
                                \o " structural error(s) (missing keys/pages)")>>
                  ELSE <<>>)
                 \o (IF arrayWarnings > 0
                     THEN <<Logged(NumToString(arrayWarnings)
                                   \o " array length difference(s) (reviews, tips, etc.)")>>
                     ELSE <<>>))
    /\ exitCode' = IF locals.structuralErrors > 0 THEN 1 ELSE 0
    /\ pc' = "done"
    /\ UNCHANGED <<op, shape, template, mdText, data, partials, result, templates, locals,
                   files, dataDir>>

Next ==
    \/ ValidateStart
    \/ ValidateLang
    \/ ValidateExit
    \/ CallRender
    \/ CallRenderBlock
    \/ CallRenderInline
    \/ BuildStart
    \/ BuildPage
    \/ BuildExit

Spec == Init /\ [][Next]_vars

-----------------------------------------------------------------------------
(* Properties.                                                             *)

Rendered == op = "render" /\ pc = "done"

EndsWith(s, suffix) ==
    /\ Len(suffix) <= Len(s)
    /\ SubSeq(s, Len(s) - Len(suffix) + 1, Len(s)) = suffix

RECURSIVE OpenLeft(_, _, _, _, _)
\* how many `open` tokens of toks (from index i on, n being open already)
\* are left without a later `close` token
OpenLeft(toks, open, close, i, n) ==
    IF i > Len(toks) THEN n
    ELSE OpenLeft(toks, open, close, i + 1,
                  IF toks[i] = open THEN n + 1
                  ELSE IF toks[i] = close /\ n > 0 THEN n - 1
                  ELSE n)

\* some {{#each}} or {{#if}} of the token sequence has no close tag after it
HasUnclosedBlock(toks) ==
    \/ OpenLeft(toks, "{{#each xs}}", "{{/each}}", 1, 0) > 0
    \/ OpenLeft(toks, "{{#if c}}", "{{/if}}", 1, 0) > 0

InTokens(S) == shape.fam = "tokens" /\ \A i \in 1..Len(shape.toks) : shape.toks[i] \in S

\* C1: a template of tags and text holding an {{#each}} or {{#if}} open tag
\* with no close tag after it makes render throw, in every context.
C1_UnterminatedBlockThrows ==
    (Rendered /\ InTokens(BlockTokens) /\ HasUnclosedBlock(shape.toks)) => result.thrown

\* the first '{{' of tpl with no '}}' anywhere after it, or -1
UnterminatedAt(tpl) ==
    LET ps == {p \in 0..(Len(tpl) - 2) : MatchAt(tpl, "{{", p) /\ IndexOf(tpl, "}}", p) = -1}
    IN IF ps = {} THEN -1 ELSE CHOOSE p \in ps : \A q \in ps : p <= q

\* a block open tag starts before position p of tpl
BlockOpensBefore(tpl, p) ==
    \E q \in 0..(p - 1) : MatchAt(tpl, "{{#each", q) \/ MatchAt(tpl, "{{#if ", q)

C3_PassThrough ==
    (Rendered /\ IndexOf(template, "{{", 0) = -1) => result = Outcome(template, <<>>)

\* a tagless template holding single braces and '}}', with a registry
C3_Witness ==
    /\ Rendered /\ template = "a { b }} c } d" /\ partials # NoPartials
    /\ result.output = template

\* the text {{asked}} is to print when x is held at `held`
PathText(held, asked, x) ==
    IF asked = held THEN x.str
    ELSE IF Len(asked) < Len(held) /\ asked = SubSeq(held, 1, Len(asked))
    THEN "[object Object]"
    ELSE ""

RECURSIVE ItemsText(_, _, _)
\* the renderings of the body for the items from index i (1-based) on
ItemsText(body, items, i) ==
    IF i > Len(items) THEN ""
    ELSE (CASE body.kind = "none" -> ""
            [] body.kind = "text" -> "T"
            [] body.kind = "item" -> NumToString(i - 1) \o ":" \o items[i].str \o ";")
         \o ItemsText(body, items, i + 1)

\* C5: a loop over a sequence of n elements gives n renderings of the body, one
\* per element in order from index 0; over an empty sequence or a value that is
\* no sequence it gives nothing, and what follows the close tag is rendered.
C5_EachConcatenates ==
    (Rendered /\ shape.fam = "each") =>
        result = Outcome(shape.around.preOut
                         \o (IF shape.xs.kind = "sequence"
                             THEN ItemsText(shape.body, shape.xs.items, 1) ELSE "")
                         \o shape.around.postOut, <<>>)

\* three elements, each printed with its index, between rendered surroundings
C5_Witness ==
    /\ Rendered /\ shape.fam = "each"
    /\ result.output = "AV0:7;1:s;2:7;WB"

ListedTruthy == {"true", "non-empty string", "non-empty sequence", "nonzero number"}
ListedFalsy  == {"false", "zero", "empty string", "empty sequence", "null", "undefined"}
Mappings     == {"mapping", "empty mapping"}

IfOutput(branch) == Outcome(shape.around.preOut \o branch \o shape.around.postOut, <<>>)

\* the branches of the conditional, by the kinds of flag that select the if-branch
IfBranches(truthy) ==
    /\ result = IfOutput("AV") <=> shape.flag \in truthy
    /\ shape.hasElse => (result = IfOutput("BW") <=> shape.flag \in ListedFalsy)
    /\ (~shape.hasElse /\ shape.flag \in ListedFalsy) => result = IfOutput("")

\* C6 as stated: the if-branch is rendered exactly for true, a non-empty
\* string, a non-empty sequence or a nonzero number, the else-branch exactly for
\* false, 0, "", an empty sequence, null or undefined (nothing without an
\* else), both in the enclosing context.
C6_IfListedValues ==
    (Rendered /\ shape.fam = "if") => IfBranches(ListedTruthy)

\* C6 as amended: the if-branch is rendered for a mapping (empty or not) too.
C6_IfTruthiness ==
    (Rendered /\ shape.fam = "if") => IfBranches(ListedTruthy \cup Mappings)

\* an empty sequence takes the else-branch, which sees the enclosing context
C6_Witness ==
    /\ Rendered /\ shape.fam = "if" /\ shape.flag = "empty sequence" /\ shape.hasElse
    /\ result.output = "AVBWWB"

RECURSIVE IfTreeText(_, _, _)
\* what a node standing at `place` gives under the conditions conds
IfTreeText(node, place, conds) ==
    IF node.k = "text" THEN "[" \o place \o "]"
    ELSE IF conds[Len(place) + 1] THEN IfTreeText(node.t[1], place \o "t", conds)
    ELSE IF node.e = <<>> THEN ""
    ELSE IfTreeText(node.e[1], place \o "e", conds)

\* C7: the {{else}} and {{/if}} of an {{#if}} are those at its own nesting
\* depth: conditionals nested in either branch keep their own else and close.
C7_NestedIfMatching ==
    (Rendered /\ shape.fam = "nestedIf") =>
        result = Outcome(IfTreeText(shape.tree, "", shape.conds), <<>>)

\* {{#if a}}{{#if b}}X{{else}}Y{{/if}}{{else}}Z{{/if}} with a true and b false
\* gives Y, the inner else-branch
C7_Witness ==
    /\ Rendered /\ shape.fam = "nestedIf"
    /\ shape.tree = IfNode(IfNode(TextNode, <<TextNode>>), <<TextNode>>)
    /\ shape.conds = <<TRUE, FALSE>>
    /\ template = "{{#if c1}}{{#if c2}}[tt]{{else}}[te]{{/if}}{{else}}[e]{{/if}}"
    /\ result.output = "[te]"

C9_MarkdownTags ==
    (Rendered /\ shape.fam = "mdTag") =>
        LET source == IF shape.field.kind = "text" THEN Str(ToStr(shape.field.val)) ELSE Str("")
            html   == IF shape.kw = "md" THEN renderBlock(source) ELSE renderInline(source)
        IN result = Outcome(shape.around.preOut \o html \o shape.around.postOut, <<>>)

RECURSIVE UnitsHtml(_, _, _)
\* the elements of the units that are not blank, from index i on
UnitsHtml(units, i, first) ==
    IF i > Len(units) THEN ""
    ELSE IF units[i].tag = "" THEN UnitsHtml(units, i + 1, first)
    ELSE (IF first THEN "" ELSE "\n")
         \o "<" \o units[i].tag \o ">" \o renderInline(Str(units[i].inner))
         \o "</" \o units[i].tag \o ">"
         \o UnitsHtml(units, i + 1, FALSE)

RECURSIVE PiecesHtml(_, _)
\* the HTML of the pieces from index i on
PiecesHtml(ps, i) == IF i > Len(ps) THEN "" ELSE ps[i].html \o PiecesHtml(ps, i + 1)

\* C11: renderInline makes every matched **x** a strong element, then every
\* matched [text](url) an anchor with target="_blank" rel="noopener", then every
\* newline left a line break; it wraps nothing in a paragraph, leaves a ** or [
\* that has no match as it is, and gives the empty string for input that is
\* empty or no string.
C11_RenderInline ==
    /\ (op = "renderInline" /\ pc = "done" /\ shape.fam = "pieces") =>
            result = Outcome(PiecesHtml(shape.ps, 1) \o shape.open, <<>>)
    /\ (op = "renderInline" /\ pc = "done" /\ shape.fam = "notText") =>
            result = Outcome("", <<>>)
    /\ (op = "renderInline" /\ pc = "done" /\ mdText = Str("")) =>
            result = Outcome("", <<>>)

\* a bold part that a link's markers cross, a newline and a ** left open
C11_Witness ==
    /\ op = "renderInline" /\ pc = "done" /\ shape.fam = "pieces"
    /\ mdText = Str("**a[t](u**)\n**b c****open")
    /\ result.output = "<strong>a<a href=\"u</strong>\" target=\"_blank\" rel=\"noopener\">t</a>"
                        \o "<br><strong>b c</strong>**open"

RECURSIVE SameValue(_, _)
\* deep equality of two values: the same type and, for a sequence, the same
\* elements in order; for a mapping, the same keys with the same values
SameValue(x, y) ==
    /\ x.t = y.t
    /\ CASE x.t = "array" ->
                /\ Len(x.v) = Len(y.v)
                /\ \A i \in 1..Len(x.v) : SameValue(x.v[i], y.v[i])
         [] x.t = "object" ->
                /\ {x.v[i].k : i \in 1..Len(x.v)} = {y.v[i].k : i \in 1..Len(y.v)}
                /\ Len(x.v) = Len(y.v)
                /\ \A i \in 1..Len(x.v) : SameValue(x.v[i].v, GetProp(y, x.v[i].k))
         [] x.t \in {"null", "undefined"} -> TRUE
         [] OTHER -> x.v = y.v

RECURSIVE HoldsUndefined(_)
\* some member or element of x, at any depth, holds undefined
HoldsUndefined(x) ==
    CASE x.t = "array"  -> \E i \in 1..Len(x.v) :
                               x.v[i].t = "undefined" \/ HoldsUndefined(x.v[i])
      [] x.t = "object" -> \E i \in 1..Len(x.v) :
                               x.v[i].v.t = "undefined" \/ HoldsUndefined(x.v[i].v)
      [] OTHER -> FALSE

RECURSIVE WithoutUndefined(_)
\* x with null for every undefined element and without the members that
\* hold undefined
WithoutUndefined(x) ==
    CASE x.t = "array" ->
            Arr([i \in 1..Len(x.v) |->
                    IF x.v[i].t = "undefined" THEN Null ELSE WithoutUndefined(x.v[i])])
      [] x.t = "object" ->
            LET kept == SelectSeq(x.v, LAMBDA e : e.v.t # "undefined")
            IN Obj([i \in 1..Len(kept) |-> Entry(kept[i].k, WithoutUndefined(kept[i].v))])
      [] OTHER -> x

\* every line of text after the first starts with a multiple of six spaces,
\* and none with more than six times `deepest`
IndentedBySix(text, deepest) ==
    \A p \in 0..(Len(text) - 1) :
        CharAt(text, p) = "\n" =>
            \E n \in 0..deepest :
                /\ MatchAt(text, Spaces(6 * n), p + 1)
                /\ CharAt(text, p + 1 + 6 * n) \notin {" ", "\n", ""}

\* what the tag put between the angle brackets of the template
JsonEmitted == Slice(result.output, 1, Len(result.output) - 1)

JsonTagFrame ==
    /\ ~result.thrown /\ result.warnings = <<>>
    /\ Len(result.output) >= 2
    /\ StartsWith(result.output, "<") /\ EndsWith(result.output, ">")

\* C12 as stated: {{json path}} on a defined value emits JSON indented by six
\* spaces whose parse is deep-equal to the value; on undefined it emits nothing.
C12_JsonRoundTrip ==
    (Rendered /\ shape.fam = "json") =>
        /\ JsonTagFrame
        /\ IF shape.subject.t = "undefined" THEN JsonEmitted = ""
           ELSE /\ IndentedBySix(JsonEmitted, 4)
                /\ JSONparse(JsonEmitted).ok
                /\ SameValue(JSONparse(JsonEmitted).v, shape.subject)

\* C12 as amended: the parse is deep-equal to the value once every undefined
\* element is replaced by null and every member holding undefined is left out;
\* so it is deep-equal to the value itself when the value holds no undefined.
C12_JsonRoundTripOfJsonValues ==
    (Rendered /\ shape.fam = "json") =>
        /\ JsonTagFrame
        /\ IF shape.subject.t = "undefined" THEN JsonEmitted = ""
           ELSE /\ IndentedBySix(JsonEmitted, 4)
                /\ JSONparse(JsonEmitted).ok
                /\ SameValue(JSONparse(JsonEmitted).v, WithoutUndefined(shape.subject))
                /\ ~HoldsUndefined(shape.subject) =>
                       SameValue(JSONparse(JsonEmitted).v, shape.subject)

\* a mapping of a string with quotes, a backslash, a newline and a tab, and a
\* sequence: printed on five lines, and parsed back to the same mapping
C12_Witness ==
    /\ Rendered /\ shape.fam = "json"
    /\ shape.subject = Obj(<<Entry("a", Str("a \"q\" \\ \n\tz")),
                             Entry("b c", Arr(<<Num(1), Str("x")>>))>>)
    /\ result.output = "<{\n      \"a\": \"a \\\"q\\\" \\\\ \\n\\tz\",\n      \"b c\": [\n"
                       \o "            1,\n            \"x\"\n      ]\n}>"
    /\ SameValue(JSONparse(JsonEmitted).v, shape.subject)

\* what {{k}} prints for a field of kind f of the element when the enclosing
\* context prints `outer` for k
Looked(f, outer) == IF f.kind = "absent" THEN outer ELSE f.str

RECURSIVE MergeText(_, _, _)
\* the renderings of the body for the elements from index i on
MergeText(els, nested, i) ==
    IF i > Len(els) THEN ""
    ELSE Looked(els[i].v, IF nested THEN "OV" ELSE "V") \o "|W|"
         \o Looked(els[i].u, IF nested THEN "OU" ELSE "") \o ";"
         \o MergeText(els, nested, i + 1)

\* C13: in the body of a loop over mappings, a key the element has gives the
\* element's value, also when the enclosing context has the key too, and a
\* key only the enclosing context has gives the enclosing context's value.
C13_ElementOverContext ==
    (Rendered /\ shape.fam = "merge") =>
        result = Outcome(MergeText(shape.els, shape.nested, 1), <<>>)

\* in a nested loop: an element holding 0 for v, one without v, one holding null
C13_Witness ==
    /\ Rendered /\ shape.fam = "merge" /\ shape.nested
    /\ Len(shape.els) = 3
    /\ result.output = "0|W|OU;OV|W|e;|W|OU;"

\* a call leaves the context, the template and the registry as they were
InputsKept == data' = data /\ template' = template /\ partials' = partials

\* after a loop the enclosing context is the one given: it has none of the keys
\* of an iteration, and v is its own
ProbeSeesGivenContext ==
    (Rendered /\ shape.fam = "frame") =>
        /\ data = shape.data0
        /\ ~result.thrown => EndsWith(result.output, "[V]")

\* C14: render does not modify its inputs.  After every call, also one that
\* expands loops, conditionals and inclusions or that throws, the context with
\* all it holds, the template and the registry are as before; an iteration's
\* keys are put in a context of its own, not in the enclosing one.
C14_InputsUnchanged == [][InputsKept]_vars /\ []ProbeSeesGivenContext

\* three iterations through a conditional and an inclusion, then the probe
C14_Witness ==
    /\ Rendered /\ shape.fam = "frame" /\ data = shape.data0
    /\ Len(GetProp(data, "xs").v) = 3
    /\ template = "{{#each xs}}{{#if _first}}F{{else}}{{> row}}{{/if}}{{/each}}" \o FrameProbe
    /\ result = Outcome("FR1;R2;[V]", <<>>)

\* the lines of the page loop's report, in order
PageLines == SelectSeq(console, LAMBDA l : l.line = "page")

\* the build's loop is at, or past, the page at index i
Attempted(i) == Len(PageLines) >= i

\* the page at index i is reported as the kind of page it is: as an error
\* with nothing written when its template is missing or empty or its context,
\* its render or its path throws; otherwise as built with its HTML written, or
\* as an error with nothing written (the write threw)
ReportedAsItIs(i) ==
    LET kind == shape.kinds[i]
        line == PageLines[i]
    IN /\ line.path = (IF kind.hasPath THEN OutPath(i) ELSE "undefined")
       /\ kind.fails => ~line.ok
       /\ ~line.ok => OutPath(i) \notin DOMAIN files
       /\ line.ok => (OutPath(i) \in DOMAIN files /\ files[OutPath(i)] = kind.html)

\* C15: build reports and counts as an error every page whose template is
\* missing or whose context, render or write throws, goes on to every later
\* page, and writes no file for a page whose render threw.
C15_BuildGoesOn ==
    (op = "build" /\ pc \in {"loop", "done"} /\ data.t # "undefined") =>
        LET n == Len(shape.kinds) IN
        /\ Len(PageLines) = (IF pc = "done" THEN n ELSE locals.pagePos - 1)
        /\ \A i \in 1..Len(PageLines) : ReportedAsItIs(i)
        /\ locals.errors = Cardinality({i \in 1..Len(PageLines) : ~PageLines[i].ok})
        /\ locals.built = Cardinality({i \in 1..Len(PageLines) : PageLines[i].ok})
        /\ DOMAIN files \subseteq {OutPath(i) : i \in 1..Len(PageLines)}
        /\ pc = "done" => exitCode = (IF locals.errors # 0 THEN 1 ELSE 0)

\* a page whose render throws, then one that is built: one error, one file,
\* exit code 1
C15_Witness ==
    /\ op = "build" /\ pc = "done" /\ Len(shape.kinds) = 2
    /\ shape.kinds[1].kind = "render throws" /\ shape.kinds[2].kind = "home"
    /\ PageLines[1].msg = "Missing closing {{/each}} (started at pos 28)"
    /\ PageLines[2].ok
    /\ files = (OutPath(2) :> "<Home|https://s.io/|en=/*;de=/de/;/app///privacy/>")
    /\ locals.errors = 1 /\ locals.built = 1 /\ exitCode = 1

\* validate has run to its exit on a site whose reference language has pages
Validated == op = "validate" /\ pc = "done" /\ shape.en = "pages"

\* the lines validate reported about the language at index i of the site
LinesAbout(i) == SelectSeq(console, LAMBDA l : l.line \in {"error", "warning"}
                                                /\ l.path = LangDirs[i])

\* the language at index i lacks a page, or a key of a page's data, EN has
LacksPageOrKey(i) == shape.kinds[i].kind \in {"key missing", "page missing", "no pages.json"}

\* the language at index i differs from EN in the length of an array only
ArrayLengthOnly(i) == shape.kinds[i].kind = "array longer"

\* C16: validate exits with code 1 whenever some language lacks a page or a
\* data key that EN has, and with code 0 when the only differences from EN are
\* array lengths.
C16_ValidateExitCode ==
    Validated =>
        LET langs == 1..Len(shape.kinds) IN
        /\ (\E i \in langs : LacksPageOrKey(i)) => exitCode = 1
        /\ (/\ \E i \in langs : ArrayLengthOnly(i)
            /\ \A i \in langs : ArrayLengthOnly(i) \/ shape.kinds[i].kind = "same")
           => exitCode = 0

\* some line about the language at index i names the key
ReportsKey(i, key) ==
    \E j \in 1..Len(LinesAbout(i)) :
        /\ IndexOf(LinesAbout(i)[j].msg, "home (page): data", 0) = 0
        /\ IndexOf(LinesAbout(i)[j].msg, "." \o key \o ": ", 0) # -1

\* C17: for every page shared with EN, validate reports a difference for
\* every data key that one of the two has and the other has not, also for keys
\* of nested objects at any depth and of objects held in arrays.
C17_EveryKeyReported ==
    Validated =>
        \A i \in 1..Len(shape.kinds) :
            shape.kinds[i].kind \in {"key missing", "extra key"}
                => ReportsKey(i, shape.kinds[i].key)

\* C18: the tag {{@ variable}} gives the output {{variable}} gives, for every
\* context and path.
C18_RawSameAsPlain ==
    (Rendered /\ shape.fam = "raw") =>
        result = renderIn("<{{" \o Dotted(shape.asked, 1) \o "}}>", data, partials).acc

RECURSIVE NestedText(_, _, _, _)
\* what the nodes of body from index i on give in the iteration of index idx
\* ("" outside every loop): a text its mark, a loop its body once per element
\* of xs, a conditional its body in a first iteration and its else-branch's
\* mark otherwise
NestedText(body, i, place, idx) ==
    IF i > Len(body) THEN ""
    ELSE LET node == body[i]
             here == place \o NumToString(i)
         IN (CASE node.k = "text" -> "[" \o here \o idx \o "]"
               [] node.k = "each" -> NestedText(node.b, 1, here, "0")
                                     \o NestedText(node.b, 1, here, "1")
               [] node.k = "if"   -> IF idx = "0" THEN NestedText(node.b, 1, here, idx)
                                     ELSE "(" \o here \o ")")
            \o NestedText(body, i + 1, place, idx)

\* C19: in a well-nested template the body of an {{#each}} ends at the
\* {{/each}} that balances it, at any depth and with sibling loops in the
\* body; an {{#if}} in an {{#each}} and an {{#each}} in an {{#if}} are each
\* matched to their own close tag.
C19_NestedBlocks ==
    (Rendered /\ shape.fam = "nested") =>
        result = Outcome(NestedText(shape.body, 1, "", ""), <<>>)

\* a loop holding a loop of a conditional and a sibling loop
C19_Witness ==
    /\ Rendered /\ shape.fam = "nested"
    /\ template = "{{#each xs}}{{#each xs}}{{#if _first}}[1111{{_index}}]{{else}}(111){{/if}}"
                  \o "{{/each}}{{#each xs}}[121{{_index}}]{{/each}}{{/each}}"
    /\ result.output = "[11110](111)[1210][1211][11110](111)[1210][1211]"

\* C20: blanks added inside the delimiters of any tag, at the start or at the
\* end of its content (open tags, close tags and {{else}}, also of a block
\* nested in another), do not change what render gives.
C20_PaddingIgnored ==
    (Rendered /\ shape.fam = "padded") =>
        result = renderIn(shape.plain, data, partials).acc

RECURSIVE SplitOn(_, _, _)
\* the pieces of s from position pos on that sep separates
SplitOn(s, sep, pos) ==
    LET n == IndexOf(s, sep, pos)
    IN IF n = -1 THEN <<Slice(s, pos, Len(s))>>
       ELSE <<Slice(s, pos, n)>> \o SplitOn(s, sep, n + 1)

\* the call rendered the loop over the elements of every kind
KeysRendered == Rendered /\ shape.fam = "keys" /\ ~result.thrown

\* what the iterations printed, one row of cells per iteration
KeyRows ==
    LET rows == SplitOn(result.output, ";", 0)
    IN [r \in 1..(Len(rows) - 1) |-> SplitOn(rows[r], "|", 0)]

\* the element, the index and the enclosing iteration of the row r
RowItem(r) == shape.items[((r - 1) % Len(shape.items)) + 1]
RowIndex(r) == (r - 1) % Len(shape.items)
RowOuter(r) == (r - 1) \div Len(shape.items)

BoolText(b) == IF b THEN "true" ELSE "false"

\* C21: an element that is no mapping (string, number, boolean, null, nested
\* sequence) is found under _value in its iteration.
C21_ValueKey ==
    KeysRendered =>
        \A r \in 1..Len(KeyRows) :
            RowItem(r).kind \notin {"mapping", "colliding"} => KeyRows[r][4] = RowItem(r).str

\* C22: iteration i of a loop over n elements has _index = i from 0, _first
\* exactly when i = 0, _last exactly when i = n - 1, and _parent the context
\* the {{#each}} was rendered in: for a nested loop the enclosing iteration's
\* context, whose own _parent is the context of the call.
C22_LoopKeys ==
    KeysRendered =>
        /\ Len(KeyRows) = Len(shape.items) * (IF shape.nested THEN 2 ELSE 1)
        /\ \A r \in 1..Len(KeyRows) :
              /\ KeyRows[r][1] = NumToString(RowIndex(r))
              /\ KeyRows[r][2] = BoolText(RowIndex(r) = 0)
              /\ KeyRows[r][3] = BoolText(RowIndex(r) = Len(shape.items) - 1)
              /\ KeyRows[r][5] = (IF shape.nested THEN "P" \o NumToString(RowOuter(r)) ELSE "V")
              /\ KeyRows[r][6] = (IF shape.nested THEN NumToString(RowOuter(r)) ELSE "")
              /\ KeyRows[r][7] = (IF shape.nested THEN "V" ELSE "")

\* two elements in the second iteration of an enclosing loop
C22_Witness ==
    /\ KeysRendered /\ shape.nested /\ Len(shape.items) = 2
    /\ shape.items[1].kind = "number" /\ shape.items[2].kind = "mapping"
    /\ result.output = "0|true|false|7|P0|0|V;1|false|true||P0|0|V;"
                       \o "0|true|false|7|P1|1|V;1|false|true||P1|1|V;"

\* C23: where an element has fields named _parent, _index, _first and _last,
\* these keys give the loop's values in the body, not the element's fields.
C23_ReservedOverElement ==
    KeysRendered =>
        \A r \in 1..Len(KeyRows) :
            RowItem(r).kind = "colliding" =>
                /\ KeyRows[r][1] \in {"0", "1", "2", "3"}
                /\ KeyRows[r][2] \in {"true", "false"}
                /\ KeyRows[r][3] \in {"true", "false"}
                /\ KeyRows[r][5] \in {"V", "P0", "P1"}

\* an element with such fields after a number
C23_Witness ==
    /\ KeysRendered /\ ~shape.nested /\ Len(shape.items) = 2
    /\ shape.items[1].kind = "number" /\ shape.items[2].kind = "colliding"
    /\ result.output = "0|true|false|7|V||;1|false|true|EV|V||;"

\* C24 as stated: where an element's field is named like a key of the loop,
\* the key gives the element's field in the body.
C24_ElementOverReserved ==
    KeysRendered =>
        \A r \in 1..Len(KeyRows) :
            RowItem(r).kind = "colliding" =>
                /\ KeyRows[r][1] = "X" /\ KeyRows[r][2] = "X" /\ KeyRows[r][3] = "X"
                /\ KeyRows[r][5] = "EP"

\* C24 as the code has it: the loop's keys _parent, _index, _first and _last
\* are written after the element's fields, so none of them gives the element's
\* field; only _value, which the iteration of a mapping does not write, gives
\* the element's field of that name.
C24_ReservedWrittenLast ==
    KeysRendered =>
        \A r \in 1..Len(KeyRows) :
            RowItem(r).kind = "colliding" =>
                /\ KeyRows[r][1] # "X" /\ KeyRows[r][2] # "X" /\ KeyRows[r][3] # "X"
                /\ KeyRows[r][5] # "EP"
                /\ KeyRows[r][4] = "EV"

\* an element with such fields alone in a nested loop
C24_Witness ==
    /\ KeysRendered /\ shape.nested /\ Len(shape.items) = 1
    /\ shape.items[1].kind = "colliding"
    /\ result.output = "0|true|true|EV|P0|0|V;0|true|true|EV|P1|1|V;"

\* what the included template gives where the index, id, v and the enclosing
\* context's v are as given
IncludedText(kind, idx, id, v, pv) ==
    CASE kind = "keys"   -> "[" \o idx \o ":" \o id \o ":" \o v \o ":" \o pv \o "]"
      [] kind = "loop"   -> "[0112]"
      [] kind = "nested" -> "[" \o idx \o id \o "]"

RECURSIVE IncludeText(_, _, _)
\* the iterations from index i on: the inclusion, then the lookups after it
IncludeText(kind, items, i) ==
    IF i > Len(items) THEN ""
    ELSE IncludedText(kind, NumToString(i - 1), items[i].id, items[i].v, "V")
         \o "<" \o NumToString(i - 1) \o items[i].id \o items[i].v \o ">"
         \o IncludeText(kind, items, i + 1)

\* C25: a found partial is rendered against the context current at the
\* inclusion tag: in a loop body the iteration's context (the element's fields
\* and the loop's keys), after the loop the context of the call; what follows
\* the inclusion is rendered in the context as it was before.
C25_PartialInContext ==
    (Rendered /\ shape.fam = "include") =>
        result = Outcome(IncludeText(shape.row, shape.items, 1)
                         \o IncludedText(shape.row, "", "", "V", "") \o "<V>", <<>>)

\* two iterations whose inclusion has a loop of its own
C25_Witness ==
    /\ Rendered /\ shape.fam = "include" /\ shape.row = "loop"
    /\ Len(shape.items) = 2 /\ shape.items[1].id = "1" /\ shape.items[2].id = "2"
    /\ result.output = "[0112]<01V>[0112]<12e>[0112]<V>"

\* C26: whenever render throws for an unterminated block, the message names
\* the construct that was left open and says where in the template it started.
C26_ErrorGivesPosition ==
    (Rendered /\ shape.fam = "tokens" /\ result.thrown) =>
        /\ \/ IndexOf(result.msg, "{{/each}}", 0) # -1
           \/ IndexOf(result.msg, "{{/if}}", 0) # -1
        /\ IndexOf(result.msg, "(started at pos ", 0) # -1

\* C28 as stated: a close or else tag that no open block takes contributes
\* the empty string, whatever the context, and nothing is thrown.
C28_StrayTagEmpty ==
    (Rendered /\ shape.fam = "stray") =>
        result = Outcome(shape.before \o shape.after, <<>>)

\* C28: a close or else tag that no open block takes is looked up as a
\* variable named /each, /if or else: it contributes the empty string where
\* the context has no field of that name and the field's value where it has
\* one; nothing is thrown.
C28_StrayTagLookedUp ==
    (Rendered /\ shape.fam = "stray") =>
        result = Outcome(shape.before \o shape.field \o shape.after, <<>>)

\* an else between a conditional and a loop, in a context without such a field
C28_Witness ==
    /\ Rendered /\ shape.fam = "stray" /\ ~shape.named
    /\ template = "{{#if c}}x{{else}}z{{/if}}{{else}}{{#each xs}}y{{/each}}"
    /\ result = Outcome("xyy", <<>>)

\* C29: an inclusion of a name whose entry in the registry is the empty string
\* does what an inclusion of a missing name does: it gives nothing and warns
\* once that the partial was not found; the rest of the template is rendered.
C29_EmptyPartial ==
    (/\ Rendered /\ shape.fam = "partial"
     /\ shape.name \in DOMAIN partials /\ partials[shape.name] = "") =>
        result = Outcome(shape.around.preOut \o shape.around.postOut, <<shape.name>>)

\* the empty entry foot included between text and variables
C29_Witness ==
    /\ Rendered /\ shape.fam = "partial"
    /\ shape.name = "foot" /\ partials = [nav |-> "N{{v}}", foot |-> ""]
    /\ result = Outcome("AVWB", <<"foot">>)

\* the lines of validate's report whose text starts with one of the given words
ReportLines(starts) ==
    SelectSeq(console, LAMBDA l : /\ l.line \in {"error", "warning"}
                                  /\ \E w \in starts : IndexOf(l.msg, w, 0) = 0)

\* the findings of a run by kind: pages missing or extra, languages without
\* pages.json, and the differences of shared pages in array lengths and others
PageFindings == Len(ReportLines({"missing page ", "extra page "}))
FileFindings == Len(ReportLines({"pages.json not found"}))
LengthFindings ==
    Len(SelectSeq(console, LAMBDA l : l.line = "warning" /\ IsArrayLen(l.msg)))
KeyFindings ==
    Len(SelectSeq(console, LAMBDA l : l.line = "error" /\ IndexOf(l.msg, "): data", 0) # -1))

\* the summary has a line that starts with the given text
Summary(text) ==
    \E i \in 1..Len(console) : console[i].line = "log" /\ IndexOf(console[i].msg, text, 0) = 0

\* C30: a missing or extra page counts in structuralErrors and not in
\* totalWarnings, a language without pages.json in totalWarnings and not in
\* structuralErrors, a difference of a shared page in totalWarnings and, unless
\* it is an array length, in structuralErrors.  So a run that finds missing or
\* extra pages only prints that all languages match and exits with 1, and the
\* number of array length differences the summary gives is that of the
\* languages without pages.json plus the array lengths found less the pages
\* missing or extra, not the array lengths found.
C30_ValidateCounters ==
    Validated =>
        LET reported == FileFindings + LengthFindings - PageFindings IN
        /\ locals.totalWarnings = FileFindings + LengthFindings + KeyFindings
        /\ locals.structuralErrors = PageFindings + KeyFindings
        /\ (PageFindings > 0 /\ FileFindings + LengthFindings + KeyFindings = 0)
               => /\ Summary("All " \o NumToString(Len(shape.kinds)) \o " languages match EN structure")
                  /\ exitCode = 1
        /\ Summary(NumToString(reported) \o " array length difference(s)")
               <=> (locals.totalWarnings # 0 /\ reported > 0)
        /\ \A n \in 0..(2 * Len(console)) :
               Summary(NumToString(n) \o " array length difference(s)") => n = reported

\* a language that lacks a page and one with a longer array: one array length
\* is found and the summary gives none
C30_Witness ==
    /\ Validated
    /\ PageFindings = 1 /\ LengthFindings = 1 /\ FileFindings = 0 /\ KeyFindings = 0
    /\ locals.totalWarnings = 1 /\ locals.structuralErrors = 1
    /\ Summary("1 structural error(s)")
    /\ ~Summary("1 array length difference(s)")
    /\ exitCode = 1

-----------------------------------------------------------------------------
(* The loops one iteration at a time.  For render, locals is the stack of  *)
(* the calls of render under way, the call on top being the one that runs; *)
(* a frame holds the call's template and context, its pos and output, and  *)
(* what its current tag goes on with once the nested render has returned.  *)
(* For the two finders locals holds startPos, depth, pos (and elsePos) and *)
(* result what was returned or thrown.                                     *)

\* the longest template scanned, in tags and texts
MaxScan == 3

FinderTokens == {"{{#each xs}}", "{{/each}}", "{{#if c}}", "{{else}}", "{{/if}}"}
ScanTokens == FinderTokens \cup {"{{v}}", "{{> nav}}", "{{json v}}", "{{v"}

\* the tag on hand waits for no nested render
NoWait == [kind |-> "none", arr |-> Undefined, i |-> 0, content |-> "", end |-> 0]

\* render(tpl, ctx, partials) has been entered: let pos = 0; let output = ''
Frame(tpl, ctx) ==
    [tpl |-> tpl, ctx |-> ctx, pos |-> 0, acc |-> Outcome("", <<>>),
     left |-> FALSE, wait |-> NoWait]

\* the call's inputs other than the template
ScanInputs ==
    /\ data = Ctx(<<Entry("c", Bool(TRUE)), Entry("xs", Arr(<<Num(1), Num(2)>>))>>)
    /\ partials = [nav |-> "N{{v}}"]
    /\ mdText = Undefined
    /\ result = NoCall
    /\ templates = <<>> /\ console = <<>> /\ files = <<>>
    /\ dataDir = <<>> /\ exitCode = -1

InitScanRender ==
    \E toks \in SeqsUpTo(ScanTokens, MaxScan) :
        /\ shape = [fam |-> "scan", toks |-> toks]
        /\ template = Concat(toks, 1)
        /\ op = "render"
        /\ locals = <<Frame(template, data)>>

\* the positions a finder is started at: the start, or behind the first tag
StartPositions(toks) == {0} \cup {Len(toks[i]) : i \in DOMAIN toks \cap {1}}

\* let depth = 1; let pos = startPos
InitScanClosingTag ==
    \E toks \in SeqsUpTo(FinderTokens, MaxScan) :
        \E startPos \in StartPositions(toks) :
            /\ shape = [fam |-> "scan", toks |-> toks]
            /\ template = Concat(toks, 1)
            /\ op = "findClosingTag"
            /\ locals = [startPos |-> startPos, depth |-> 1, pos |-> startPos]

\* let depth = 1; let pos = startPos; let elsePos = -1
InitScanIfBlock ==
    \E toks \in SeqsUpTo(FinderTokens, MaxScan) :
        \E startPos \in StartPositions(toks) :
            /\ shape = [fam |-> "scan", toks |-> toks]
            /\ template = Concat(toks, 1)
            /\ op = "findIfBlock"
            /\ locals = [startPos |-> startPos, depth |-> 1, pos |-> startPos,
                         elsePos |-> -1]

ScanInit ==
    /\ pc = "scanning"
    /\ ScanInputs
    /\ (InitScanRender \/ InitScanClosingTag \/ InitScanIfBlock)

\* the loop is left: return or throw
ScanEnds(out) ==
    /\ result' = out
    /\ pc' = "done"
    /\ UNCHANGED <<locals, data>>

RECURSIVE WarningsBelow(_, _)
\* what the calls under way below frame n have logged, oldest call first
WarningsBelow(stack, n) ==
    IF n <= 1 THEN <<>>
    ELSE WarningsBelow(stack, n - 1) \o stack[n - 1].acc.warnings

\* break: the call on top leaves its loop with the output acc
Breaks(n, f, acc) ==
    /\ locals' = [locals EXCEPT ![n] = [f EXCEPT !.acc = acc, !.left = TRUE]]
    /\ UNCHANGED <<pc, result>>

\* the tag is done with: pos is set and the loop goes on
GoesOn(n, f, acc, pos) ==
    /\ locals' = [locals EXCEPT ![n] = [f EXCEPT !.acc = acc, !.pos = pos]]
    /\ UNCHANGED <<pc, result>>

\* render(tpl, ctx, partials) is called for the tag, which goes on as wait says
Calls(n, f, acc, wait, tpl, ctx) ==
    /\ locals' = Append([locals EXCEPT ![n] = [f EXCEPT !.acc = acc, !.wait = wait]],
                        Frame(tpl, ctx))
    /\ UNCHANGED <<pc, result>>

\* the Error passes through every call under way
Throws(n, msg, acc) ==
    /\ result' = Failure(msg, WarningsBelow(locals, n) \o acc.warnings)
    /\ pc' = "done"
    /\ UNCHANGED locals

\* the nested render returns to the tag, which sets pos to end
ThenAt(end) == [NoWait EXCEPT !.kind = "call", !.end = end]

\* the branches of render for the tag of the call on top
HandleTag(n, f, tag, afterTag, acc) ==
    IF StartsWith(tag, "#each ") THEN
        \E found \in {findClosingTag(f.tpl, afterTag, "each")},
           arr \in {resolve(f.ctx, Trim(Slice(tag, 6, Len(tag))))} :
            IF found.thrown THEN Throws(n, found.msg, acc)
            ELSE IF IsArray(arr) /\ 0 < Len(arr.v)
            THEN Calls(n, f, acc,
                       [kind |-> "each", arr |-> arr, i |-> 0,
                        content |-> found.content, end |-> found.end],
                       found.content, itemCtx(f.ctx, arr, 0))
            ELSE GoesOn(n, f, acc, found.end)
    ELSE IF StartsWith(tag, "#if ") THEN
        \E block \in {findIfBlock(f.tpl, afterTag)},
           value \in {resolve(f.ctx, Trim(Slice(tag, 4, Len(tag))))} :
            IF block.thrown THEN Throws(n, block.msg, acc)
            ELSE IF isTruthy(value)
            THEN Calls(n, f, acc, ThenAt(block.end), block.ifContent, f.ctx)
            ELSE IF block.hasElse /\ block.elseContent # ""
            THEN Calls(n, f, acc, ThenAt(block.end), block.elseContent, f.ctx)
            ELSE GoesOn(n, f, acc, block.end)
    ELSE IF StartsWith(tag, "> ") THEN
        \E partialName \in {Trim(Slice(tag, 2, Len(tag)))} :
            \E partial \in {PartialAt(partials, partialName)} :
                IF PartialFound(partial)
                THEN Calls(n, f, acc, ThenAt(afterTag), partial.v, PartialContext(f.ctx))
                ELSE GoesOn(n, f, MissingPartial(acc, partialName), afterTag)
    ELSE IF StartsWith(tag, "json ") THEN
        \E value \in {resolve(f.ctx, Trim(Slice(tag, 5, Len(tag))))} :
            GoesOn(n, f, IF value.t # "undefined" THEN Emit(acc, JSONstringify(value))
                         ELSE acc, afterTag)
    ELSE
        \E value \in {resolve(f.ctx, tag)} :
            GoesOn(n, f, Emit(acc, Interpolate(value)), afterTag)

\* the call on top has left its loop or will at the next test of pos
Returning(f) == f.left \/ ~(f.pos < Len(f.tpl))

\* one pass through the while loop of the call of render on top, up to the
\* end of the pass or to the nested render its tag calls
RenderIteration ==
    /\ op = "render" /\ pc = "scanning"
    /\ \E n \in {Len(locals)} : \E f \in {locals[n]} :
        /\ ~Returning(f)
        /\ \E tagStart \in {IndexOf(f.tpl, "{{", f.pos)} :
            IF tagStart = -1 THEN Breaks(n, f, RestOfTemplate(f.tpl, f.pos, f.acc))
            ELSE \E tagEnd \in {IndexOf(f.tpl, "}}", tagStart)},
                    acc \in {Emit(f.acc, Slice(f.tpl, f.pos, tagStart))} :
                    IF tagEnd = -1 THEN Breaks(n, f, UnterminatedTag(f.tpl, tagStart, acc))
                    ELSE \E tag \in {Trim(Slice(f.tpl, tagStart + 2, tagEnd))} :
                            HandleTag(n, f, tag, tagEnd + 2, acc)
    /\ UNCHANGED <<op, shape, template, mdText, data, partials>>
    /\ UNCHANGED <<templates, console, files, dataDir, exitCode>>

\* the calls under way once the call on top has returned out to frame c: the
\* loop over the array calls render for its next element, any other tag
\* (and the loop after its last element) sets pos
Returned(below, c, out) ==
    IF c.wait.kind = "each" /\ c.wait.i + 1 < Len(c.wait.arr.v)
    THEN below \o <<[c EXCEPT !.acc = out, !.wait.i = @ + 1],
                    Frame(c.wait.content, itemCtx(c.ctx, c.wait.arr, c.wait.i + 1))>>
    ELSE below \o <<[c EXCEPT !.acc = out, !.pos = c.wait.end, !.wait = NoWait]>>

\* return output: the call on top returns, to the tag that called it or,
\* the outermost call, to the caller of render
RenderReturn ==
    /\ op = "render" /\ pc = "scanning"
    /\ \E n \in {Len(locals)} : \E f \in {locals[n]} :
        /\ Returning(f)
        /\ IF n = 1 THEN ScanEnds(f.acc)
           ELSE /\ \E c \in {locals[n - 1]} :
                    locals' = Returned(SubSeq(locals, 1, n - 2), c, Extend(c.acc, f.acc))
                /\ UNCHANGED <<pc, result, data>>
    /\ UNCHANGED <<op, shape, template, mdText, partials>>
    /\ UNCHANGED <<templates, console, files, dataDir, exitCode>>

\* variant: the position is left at the close tag that lowered the depth
AfterCloseStays(nextClose, closeTag) == nextClose

\* pos = nextClose + closeTag.length
AfterClose(nextClose, closeTag) == nextClose + Len(closeTag)

\* one pass through the while loop of findClosingTag, for the tag name each
ClosingTagIteration ==
    /\ op = "findClosingTag" /\ pc = "scanning"
    /\ LET openPattern == "{{#each"
           closeTag    == "{{/each}}"
           nextOpen    == IndexOf(template, openPattern, locals.pos)
           nextClose   == IndexOf(template, closeTag, locals.pos)
       IN IF ~(locals.depth > 0 /\ locals.pos < Len(template))
          THEN ScanEnds(Throw("Missing closing " \o closeTag))
          ELSE IF nextClose = -1
          THEN ScanEnds(Throw("Missing closing " \o closeTag \o " (started at pos "
                              \o NumToString(locals.startPos) \o ")"))
          ELSE IF NestedOpen(nextOpen, nextClose)
          THEN /\ locals' = [locals EXCEPT !.depth = @ + 1,
                                           !.pos = nextOpen + Len(openPattern)]
               /\ UNCHANGED <<pc, result, data>>
          ELSE IF locals.depth - 1 = 0
          THEN ScanEnds([thrown |-> FALSE,
                         content |-> Slice(template, locals.startPos, nextClose),
                         end |-> nextClose + Len(closeTag)])
          ELSE /\ locals' = [locals EXCEPT !.depth = @ - 1,
                                           !.pos = AfterClose(nextClose, closeTag)]
               /\ UNCHANGED <<pc, result, data>>
    /\ UNCHANGED <<op, shape, template, mdText, partials>>
    /\ UNCHANGED <<templates, console, files, dataDir, exitCode>>

\* the loop goes on with the given depth, pos and elsePos
IfBlockGoesOn(depth, pos, elsePos) ==
    /\ locals' = [locals EXCEPT !.depth = depth, !.pos = pos, !.elsePos = elsePos]
    /\ UNCHANGED <<pc, result, data>>

\* what findIfBlock returns for the {{/if}} at endif
IfBlockFound(tpl, startPos, elsePos, endif) ==
    IF elsePos # -1
    THEN [thrown |-> FALSE,
          ifContent |-> Slice(tpl, startPos, elsePos),
          hasElse |-> TRUE,
          elseContent |-> Slice(tpl, elsePos + 8, endif),
          end |-> endif + 7]
    ELSE [thrown |-> FALSE,
          ifContent |-> Slice(tpl, startPos, endif),
          hasElse |-> FALSE,
          elseContent |-> "",
          end |-> endif + 7]

\* the pass of findIfBlock's loop that handles the tag next
IfBlockTag(next) ==
    IF next.type = "if" THEN IfBlockGoesOn(locals.depth + 1, next.pos + 6, locals.elsePos)
    ELSE IF OwnElse(next.type, locals.depth)
    THEN IfBlockGoesOn(locals.depth, next.pos + 8, next.pos)
    ELSE IF next.type = "else"
    THEN IfBlockGoesOn(locals.depth, next.pos + 8, locals.elsePos)
    ELSE IF locals.depth - 1 = 0
    THEN ScanEnds(IfBlockFound(template, locals.startPos, locals.elsePos, next.pos))
    ELSE IfBlockGoesOn(locals.depth - 1, next.pos + 7, locals.elsePos)

\* one pass through the while loop of findIfBlock
IfBlockIteration ==
    /\ op = "findIfBlock" /\ pc = "scanning"
    /\ LET nextIf    == IndexOf(template, "{{#if ", locals.pos)
           nextElse  == IndexOf(template, "{{else}}", locals.pos)
           nextEndif == IndexOf(template, "{{/if}}", locals.pos)
       IN IF ~(locals.pos < Len(template)) THEN ScanEnds(Throw("Missing {{/if}}"))
          ELSE IF nextIf = -1 /\ nextElse = -1 /\ nextEndif = -1
          THEN ScanEnds(Throw("Missing {{/if}}"))
          ELSE IfBlockTag(NearestTag(nextIf, nextElse, nextEndif))
    /\ UNCHANGED <<op, shape, template, mdText, partials>>
    /\ UNCHANGED <<templates, console, files, dataDir, exitCode>>

ScanNext == RenderIteration \/ RenderReturn \/ ClosingTagIteration \/ IfBlockIteration

\* a loop that can make another pass makes it
ScanSpec == ScanInit /\ [][ScanNext]_vars /\ WF_vars(ScanNext)

\* a loop left by its iterations has done what the call as a whole does
ScanAgrees ==
    pc = "done" =>
        CASE op = "render" -> result = render(template, data, partials)
          [] op = "findClosingTag" ->
                result = findClosingTag(template, locals.startPos, "each")
          [] op = "findIfBlock" ->
                result = findIfBlock(template, locals.startPos)

\* a step of render that completes a pass of a call's loop and lets the loop
\* go on leaves that call's pos greater: the pass of the call on top that
\* called no render, or the pass of the call that the call on top returns to;
\* the calls that wait keep their pos
RenderPosIncreases ==
    LET m == Len(locals') IN
    /\ \A k \in 1..(m - 1) : locals'[k].pos = locals[k].pos
    /\ m < Len(locals) => locals'[m].pos > locals[m].pos
    /\ (m = Len(locals) /\ ~Returning(locals[m]) /\ ~locals'[m].left)
           => locals'[m].pos > locals[m].pos

\* a pass after which the loop goes on leaves pos greater than it found it
PosIncreases ==
    (pc = "scanning" /\ pc' = "scanning") =>
        IF op = "render" THEN RenderPosIncreases ELSE locals'.pos > locals.pos

\* C27: every pass through the loop of render, of findClosingTag and of
\* findIfBlock that does not leave the loop increases pos, and every one of
\* the three loops is left in the end (by a break, a return or a throw),
\* where no partial includes itself.
C27_LoopsAdvance == [][PosIncreases]_vars /\ <>(pc = "done")

\* render has passed a loop of two passes whose body includes a template
\* and has left its loop at the end of the template
C27_Witness ==
    /\ pc = "done" /\ op = "render"
    /\ template = "{{#each xs}}{{> nav}}{{/each}}"
    /\ locals[1].pos = Len(template)
    /\ result.output = "NVNV"

====
